---- MODULE Spec2Model ----
(***************************************************************************)
(* Erasure-coded object storage engine (XL backend).                       *)
(*                                                                         *)
(*   Spec    the erasure read path: erasureReadFile over N disks           *)
(*   SpecXL  engine construction and the quorum decisions of XL            *)
(*   SpecWalk  one tree walker over a directory tree and its consumer      *)
(*   SpecPool  list calls sharing tree walkers through the walker pool     *)
(*   SpecRPC  one authenticated RPC client: Login, Call and Close          *)
(*   SpecSilent  reads of an object damaged under a matching checksum      *)
(*   SpecOrder  getOrderedDisks over every distribution                    *)
(*   SpecPar  parallelRead at the grain of its routines                    *)
(*   SpecLate  reads over disks that fail after their first block          *)
(*   SpecEnd  tree walks over trees holding empty directories              *)
(*   SpecFac  goroutines calling the object layer factory                  *)
(*   SpecIAM  the IAM subsystem: its calls and the refresh routine         *)
(*   SpecPeer  the IAM subsystem of a server notified by its peers         *)
(***************************************************************************)
EXTENDS Integers, Sequences, FiniteSets, TLC

VARIABLES
    \* ---- inputs of one erasureReadFile call
    disks,          \* physical disk index -> state of that disk and its shard file
    files,          \* physical disk index -> bytes of the shard file on that disk
    blockCheckSums, \* physical disk index -> checksum recorded for its shard file
    distribution,   \* eInfo.Distribution: physical index (1..N) -> shard number 1..N
    BlockSize,      \* eInfo.BlockSize
    totalLength,    \* size of the stored object
    offset,         \* first byte wanted
    length,         \* number of bytes wanted
    \* ---- locals of erasureReadFile
    orderedDisks,   \* shard index -> physical disk index, or NilDisk
    verified,       \* the bitRotVerify closure's []verified
    enBlocks,       \* shard index -> chunk read for the current block, or Nil
    readDisks,      \* disks selected for the current parallel read
    nextIndex,
    block,
    bytesWritten,
    writer,         \* everything written to the sink so far
    pc,             \* position inside erasureReadFile
    err,            \* the error erasureReadFile returned
    readLog,        \* every parallelRead of the call: its block, the disks read, the
                    \* disks hashed, the disks that failed, and the chunk read
    reconstructed,  \* decodeData was called for the current block
    tpc,            \* shard index -> position of the read task started for it
    writes,         \* the slots the tasks of the current batch wrote: task, array, slot
    \* ---- the engine (SpecXL)
    numDisks,       \* len(disks) handed to the constructor
    xlKind,         \* which constructor built the engine: "xlObjects", "XL" or "none"
    xlErr,          \* the error the constructor returned
    readQuorum,
    writeQuorum,
    xpc,            \* "new", "formatted", "constructed", "failed", or the call that returned:
                    \* "called" (RenameFile), "madeVol", "statVol", "healed", "crashed"
    diskErrs,       \* what each disk answered to the last fanned-out call
    dstFiles,       \* disk -> the destination object's files are on that disk
    opErr,          \* the error the last engine call returned
    heal,           \* listAllVolInfo's verdict that healing is necessary
    healCalls,      \* disks the heal routine of StatVol sent MakeVol to
    formats,        \* disk -> slot its format document names, Unformatted or Offline
    formatWrites,   \* disks a format document was written to by the last bootstrap
    diskOrder,      \* newPosixDisks: slot -> disk, or 0 where no disk claims the slot
    boots,          \* number of engines constructed over these disks so far
    \* ---- the tree walker (SpecWalk)
    tree,           \* the object keys stored in the bucket
    failDir,        \* the directory whose ListDir fails on the disk, or NoDir
    wpc,            \* walker -> position of its goroutine
    wparams,        \* walker -> prefix, marker, recursive it was started with
    plan,           \* walker -> the results treeWalk sends while no send times out
    sentN,          \* walker -> number of results sent so far
    chanBuf,        \* walker -> content of its channel
    timedOut,       \* walker -> treeWalker.timedOut
    level,          \* walker -> depth of the treeWalk recursion it is in
    received,       \* walker -> the results the consumer received from it
    \* ---- the walker pool (SpecPool)
    listObjectMap,      \* marker of the listParams -> walkers saved under it
    listObjectMapMutex, \* the list call holding the mutex, or 0
    cpc,                \* list call -> its position
    cmarker,            \* list call -> the marker it was called with
    cwalker,            \* list call -> the walker it consumes from, or 0
    cresumed,           \* list call -> its walker came from lookupTreeWalk
    cwalkChs,           \* list call -> the walkers lookupTreeWalk read from the map
    calls,              \* number of list calls made so far
    \* ---- the authenticated RPC client (SpecRPC)
    isLoggedIn,     \* AuthRPCClient.isLoggedIn
    token,          \* AuthRPCClient.token
    tstamp,         \* AuthRPCClient.tstamp
    rpcpc,          \* "idle", or "loggedIn": inside Call, after Login returned nil
    callErr,        \* what the last Call returned
    loginInCall,    \* the Call under way sent a Login RPC
    lastEvent,      \* how the operation before the Call under way ended
    issued,         \* server: the token and timestamp of its last login reply
    rpcLog,         \* every RPC sent on the connection, in order
    \* ---- the object layer factory
    objAPI,         \* the closure variable objAPI: 0 for nil, or the object layer
    fpc,            \* caller -> its position in the function the factory returned
    nsLock,         \* holder of the lock on the format file, 0 when free
    layers,         \* object layers newObjectLayer has initialized so far
    stepsRun,       \* how often the steps after newObjectLayer ran
    reinit,         \* newObjectLayer was called after it had succeeded
    obtained,       \* the non-nil results callers obtained
    fcalls,         \* calls of the function made so far
    \* ---- the IAM subsystem (SpecIAM)
    sys,            \* the maps of IAMSys
    store,          \* the IAM configuration items in the backend
    refreshed,      \* the maps the refresh under way has built from the backend
    ipc,            \* position of the refresh routine: "idle" or "loaded"
    ret,            \* the last IAMSys call that returned: its name, arguments and error
    created,        \* users a SetUser created with valid credentials, not deleted or disabled since
    iamOps,         \* number of IAMSys calls made so far
    peerWrites      \* number of changes peers made to the backend so far

readVars == <<disks, files, blockCheckSums, distribution, BlockSize, totalLength, offset, length,
              orderedDisks, verified, enBlocks, readDisks, nextIndex, block,
              bytesWritten, writer, pc, err, readLog, reconstructed, tpc, writes>>

taskVars == <<tpc, writes>>

xlVars == <<numDisks, xlKind, xlErr, readQuorum, writeQuorum, xpc, diskErrs, dstFiles, opErr,
            heal, healCalls, formats, formatWrites, diskOrder, boots>>

fmtVars == <<formats, formatWrites, diskOrder, boots>>

poolVars == <<listObjectMap, listObjectMapMutex, cpc, cmarker, cwalker, cresumed, cwalkChs,
              calls>>

walkVars == <<tree, failDir, wpc, wparams, plan, sentN, chanBuf, timedOut, level, received,
              poolVars>>

rpcVars == <<isLoggedIn, token, tstamp, rpcpc, callErr, loginInCall, lastEvent, issued, rpcLog>>

\* The variable of the closure newObjectLayerFactory returns and the
\* goroutines calling it.
facVars == <<objAPI, fpc, nsLock, layers, stepsRun, reinit, obtained, fcalls>>

iamVars == <<sys, store, refreshed, ipc, ret, created, iamOps, peerWrites>>

srvVars == <<facVars, iamVars>>

vars == <<readVars, xlVars, walkVars, rpcVars, srvVars>>

----
(* Bounds of the model. *)

\* Largest object stored.
MaxTotalLength == 6
\* Smallest and largest erasure block size tried.
MinBlockSize == 3
MaxBlockSize == 4
\* Largest disk list handed to a constructor.
MaxDisks == 18
\* Largest engine on which the fanned-out calls are explored disk by disk.
MaxOpDisks == 8
\* engines constructed one after the other over the same disks
MaxBoots == 2
\* objects in the bucket
MaxObjects == 2
\* capacity of a walker's channel
ChanCap == 1
\* walkers
MaxWalkers == 2
\* list calls, one after the other or at the same time
MaxCalls == 3

\* RPCs sent by the authenticated client in one run.
MaxRPCs == 4

\* The goroutines calling the function of the object layer factory, and the
\* calls they make in all.
MaxFacCallers == 2

MaxFacCalls == 4

----
(* Program constants. *)

maxErasureBlocks == 16
minErasureBlocks == 6

\* The read path is modelled over the smallest disk set the engine accepts.
N == minErasureBlocks
DataBlocks == N \div 2
ParityBlocks == N \div 2

Shards == 0..(N - 1)
NilDisk == -1
Nil == << >>

\* Shard bytes live in a prime field large enough to give every shard its own
\* evaluation point and every byte of the object its own value.
FieldPrime == 2 * minErasureBlocks + 1

Min(a, b) == IF a < b THEN a ELSE b

Mod(a) == ((a % FieldPrime) + FieldPrime) % FieldPrime

----
(* Reed-Solomon over GF(FieldPrime): shard j of a stripe is the value at   *)
(* point j of the polynomial of degree < DataBlocks through the data       *)
(* shards, so the code is systematic and any DataBlocks shards determine   *)
(* all the others.                                                         *)

Inv(a) == CHOOSE b \in 1..(FieldPrime - 1) : (a * b) % FieldPrime = 1

RECURSIVE LagrangeTerm(_, _, _, _)
\* Product over m # i of (x - xs[m]) / (xs[i] - xs[m]).
LagrangeTerm(xs, i, x, m) ==
    IF m > Len(xs) THEN 1
    ELSE IF m = i THEN LagrangeTerm(xs, i, x, m + 1)
    ELSE Mod(Mod(x - xs[m]) * Inv(Mod(xs[i] - xs[m])) * LagrangeTerm(xs, i, x, m + 1))

RECURSIVE Interpolate(_, _, _, _)
\* Value at x of the polynomial through (xs[i], ys[i]), i = from..Len(xs).
Interpolate(xs, ys, x, from) ==
    IF from > Len(xs) THEN 0
    ELSE Mod(ys[from] * LagrangeTerm(xs, from, x, 1) + Interpolate(xs, ys, x, from + 1))

\* The points of the data shards, in order.
DataPoints == [i \in 1..DataBlocks |-> i - 1]

\* Parity shard j (DataBlocks <= j < N) of the data shards data[0..D-1].
EncodeParity(data, j) ==
    [k \in 1..Len(data[0]) |->
        Interpolate(DataPoints, [i \in 1..DataBlocks |-> data[i - 1][k]], j, 1)]

RECURSIVE FirstPresent(_, _, _)
\* The first `need` shard indexes, from i upwards, that hold a chunk.
FirstPresent(blocks, i, need) ==
    IF need = 0 \/ i >= N THEN << >>
    ELSE IF blocks[i] # Nil THEN <<i>> \o FirstPresent(blocks, i + 1, need - 1)
    ELSE FirstPresent(blocks, i + 1, need)

PresentCount(blocks) == Cardinality({i \in Shards : blocks[i] # Nil})

\* rs.Reconstruct: fills every missing shard from DataBlocks present ones.
Reconstruct(blocks) ==
    LET xs == FirstPresent(blocks, 0, DataBlocks)
        n  == Len(blocks[xs[1]])
    IN  [i \in Shards |->
            IF blocks[i] # Nil THEN blocks[i]
            ELSE [k \in 1..n |->
                    Interpolate(xs, [m \in 1..DataBlocks |-> blocks[xs[m]][k]], i, 1)]]

\* rs.Verify: the parity shards are the encoding of the data shards.
Verify(blocks) ==
    \A j \in DataBlocks..(N - 1) : blocks[j] = EncodeParity(blocks, j)

----
(* The stored object: what the write path left on the disks.               *)

\* calculate the blockSize based on input length and total number of data blocks.
getEncodedBlockLen(inputLen, dataBlocks) ==
    (inputLen + dataBlocks - 1) \div dataBlocks

\* The object's content: byte i carries the value i, so that a byte delivered
\* out of place, and a padding byte (0), are both visible in the output.
Content == [i \in 1..totalLength |-> i]

NumBlocks == (totalLength + BlockSize - 1) \div BlockSize

\* Payload bytes of block b (the last block may be short).
BlockLen(b) == Min(BlockSize, totalLength - b * BlockSize)

\* Data shard j of block b: the j-th of DataBlocks equal slices of the block,
\* zero filled up to the encoded block length.
DataChunk(b, j) ==
    LET cur == getEncodedBlockLen(BlockLen(b), DataBlocks)
    IN  [k \in 1..cur |->
            IF j * cur + k <= BlockLen(b)
            THEN Content[b * BlockSize + j * cur + k] ELSE 0]

\* Shard j of block b as the encoder produced it.
EncodedChunk(b, j) ==
    IF j < DataBlocks THEN DataChunk(b, j)
    ELSE EncodeParity([i \in 0..(DataBlocks - 1) |-> DataChunk(b, i)], j)

RECURSIVE ShardFileFrom(_, _)
ShardFileFrom(j, b) ==
    IF b >= NumBlocks THEN << >>
    ELSE EncodedChunk(b, j) \o ShardFileFrom(j, b + 1)

\* The shard file of shard j as written: the chunks of all blocks appended.
ShardFile(j) == ShardFileFrom(j, 0)

RECURSIVE hashSum(_)
\* The digest of a file: every byte and its position enter it.
hashSum(f) ==
    IF f = << >> THEN 7
    ELSE (hashSum(SubSeq(f, 1, Len(f) - 1)) * 31 + f[Len(f)] + 1) % 1009

\* Bit-rot: one byte of the file has changed.
Rotten(f) == [f EXCEPT ![1] = (f[1] + 1) % FieldPrime]

\* States of a disk with respect to the object read.
DiskStates == {"ok", "offline", "missing", "rotten", "ioerr"}


----
(* erasureReadFile and its helpers.                                        *)

\* find start/end block and bytes to skip for the given offset.
getBlockInfo(off, len, blockSize) ==
    [startBlock |-> off \div blockSize,
     endBlock |-> len \div blockSize,
     bytesToSkip |-> off % blockSize]

\* Faulty variant: the disks are taken in their physical order.
getOrderedDisks_Identity(dist, ds) ==
    [blockIndex \in Shards |-> ds[blockIndex + 1]]

\* Faulty variant: the distribution is applied, not inverted.
getOrderedDisks_Forward(dist, ds) ==
    [blockIndex \in Shards |-> ds[dist[blockIndex + 1]]]

RECURSIVE orderFrom(_, _, _, _)
\* The loop of getOrderedDisks from index on (lines 74-78).
orderFrom(dist, ds, index, ordered) ==
    IF index > N THEN ordered
    ELSE orderFrom(dist, ds, index + 1, [ordered EXCEPT ![dist[index] - 1] = ds[index]])

\* get ordered disks from erasure distribution (also applied to the
\* checksums, which travel with their disks); the slice made at lines 71-72
\* holds the zero value until the loop fills it.
getOrderedDisks(dist, ds) ==
    orderFrom(dist, ds, 1, [blockIndex \in Shards |-> NilDisk])

\* Faulty variant: one shard too few is taken for enough.
isSuccessDecodeBlocks_Lenient(blocks, dataBlocks) ==
    LET successDataBlocksCount ==
            Cardinality({i \in Shards : i < dataBlocks /\ blocks[i] # Nil})
        successParityBlocksCount ==
            Cardinality({i \in Shards : i >= dataBlocks /\ blocks[i] # Nil})
    IN  \/ successDataBlocksCount = dataBlocks
        \/ successDataBlocksCount + successParityBlocksCount >= dataBlocks - 1

\* Faulty variant: dataBlocks shards of any kind are taken for enough.
isSuccessDecodeBlocks_NoExtra(blocks, dataBlocks) ==
    LET successDataBlocksCount ==
            Cardinality({i \in Shards : i < dataBlocks /\ blocks[i] # Nil})
        successParityBlocksCount ==
            Cardinality({i \in Shards : i >= dataBlocks /\ blocks[i] # Nil})
    IN  \/ successDataBlocksCount = dataBlocks
        \/ successDataBlocksCount + successParityBlocksCount >= dataBlocks

\* do we have all the blocks to be successfully decoded?
isSuccessDecodeBlocks(blocks, dataBlocks) ==
    LET successDataBlocksCount ==
            Cardinality({i \in Shards : i < dataBlocks /\ blocks[i] # Nil})
        successParityBlocksCount ==
            Cardinality({i \in Shards : i >= dataBlocks /\ blocks[i] # Nil})
    IN  \/ successDataBlocksCount = dataBlocks
        \/ successDataBlocksCount + successParityBlocksCount >= dataBlocks + 1

\* do we have all the data blocks?
isSuccessDataBlocks(blocks, dataBlocks) ==
    Cardinality({i \in 0..(dataBlocks - 1) : blocks[i] # Nil}) >= dataBlocks

NoDisks == [i \in Shards |-> NilDisk]

RECURSIVE getReadDisksScan_NoFastPath(_, _, _, _, _, _)
\* Faulty variant: the scan stops only at dataBlocks+1 disks.
getReadDisksScan_NoFastPath(ordered, i, dataBlocks, dataDisks, parityDisks, rd) ==
    IF i >= N THEN [readDisks |-> NoDisks, nextIndex |-> 0, err |-> "errXLReadQuorum"]
    ELSE IF ordered[i] = NilDisk
    THEN getReadDisksScan_NoFastPath(ordered, i + 1, dataBlocks, dataDisks, parityDisks, rd)
    ELSE LET dd == IF i < dataBlocks THEN dataDisks + 1 ELSE dataDisks
             pd == IF i < dataBlocks THEN parityDisks ELSE parityDisks + 1
             rd2 == [rd EXCEPT ![i] = ordered[i]]
         IN  IF dd + pd = dataBlocks + 1
             THEN [readDisks |-> rd2, nextIndex |-> i + 1, err |-> "nil"]
             ELSE getReadDisksScan_NoFastPath(ordered, i + 1, dataBlocks, dd, pd, rd2)

RECURSIVE getReadDisksScan(_, _, _, _, _, _)
\* The second loop of getReadDisks, from shard i on.
getReadDisksScan(ordered, i, dataBlocks, dataDisks, parityDisks, rd) ==
    IF i >= N THEN [readDisks |-> NoDisks, nextIndex |-> 0, err |-> "errXLReadQuorum"]
    ELSE IF ordered[i] = NilDisk
    THEN getReadDisksScan(ordered, i + 1, dataBlocks, dataDisks, parityDisks, rd)
    ELSE LET dd == IF i < dataBlocks THEN dataDisks + 1 ELSE dataDisks
             pd == IF i < dataBlocks THEN parityDisks ELSE parityDisks + 1
             rd2 == [rd EXCEPT ![i] = ordered[i]]
         IN  IF dd = dataBlocks \/ dd + pd = dataBlocks + 1
             THEN [readDisks |-> rd2, nextIndex |-> i + 1, err |-> "nil"]
             ELSE getReadDisksScan(ordered, i + 1, dataBlocks, dd, pd, rd2)

\* Faulty variant: the disks read before index are not counted.
getReadDisks_ForgetRead(ordered, index, dataBlocks) ==
    getReadDisksScan(ordered, index, dataBlocks, 0, 0, NoDisks)

\* Return readable disks slice from which we can read parallelly.
getReadDisks(ordered, index, dataBlocks) ==
    LET dataDisks ==
            Cardinality({i \in Shards : i < index /\ ordered[i] # NilDisk /\ i < dataBlocks})
        parityDisks ==
            Cardinality({i \in Shards : i < index /\ ordered[i] # NilDisk /\ i >= dataBlocks})
    IN  IF dataDisks = dataBlocks
        THEN [readDisks |-> NoDisks, nextIndex |-> 0, err |-> "errUnexpected"]
        ELSE IF dataDisks + parityDisks >= dataBlocks + 1
        THEN [readDisks |-> NoDisks, nextIndex |-> 0, err |-> "errUnexpected"]
        ELSE getReadDisksScan(ordered, index, dataBlocks, dataDisks, parityDisks, NoDisks)

\* Faulty variant: the hash of the file is not compared.
isValidBlock_NoHash(disk, blockCheckSum) ==
    IF disk = NilDisk THEN FALSE
    ELSE IF files[disk] = Nil THEN FALSE
    ELSE TRUE

\* calculates the checksum hash for the block and validates it.
isValidBlock(disk, blockCheckSum) ==
    IF disk = NilDisk THEN FALSE
    ELSE IF files[disk] = Nil THEN FALSE
    ELSE hashSum(files[disk]) = blockCheckSum

\* copyN: size bytes of the shard file at offset off, or Nil on a read error.
copyN(disk, off, size) ==
    IF disks[disk] = "ioerr" \/ files[disk] = Nil THEN Nil
    ELSE IF disks[disk] = "late" /\ off > 0 THEN Nil
    ELSE IF off + size > Len(files[disk]) THEN Nil
    ELSE SubSeq(files[disk], off + 1, off + size)

\* Concatenation of the data shards.
RECURSIVE getDataBlocks(_, _, _)
getDataBlocks(blocks, i, dataBlocks) ==
    IF i >= dataBlocks THEN << >>
    ELSE blocks[i] \o getDataBlocks(blocks, i + 1, dataBlocks)

\* writeDataBlocks: the bytes [outOffset, outOffset + outSize) of the data
\* shards taken in order, as far as they exist.
writeDataBlocks(blocks, dataBlocks, outOffset, outSize) ==
    LET data == getDataBlocks(blocks, 0, dataBlocks)
    IN  SubSeq(data, outOffset + 1, Min(outOffset + outSize, Len(data)))

----
(* One erasureReadFile call.                                               *)

PhysicalDisks == 1..N

\* The distributions tried: the shard of physical disk i.
Distributions == { [i \in 1..N |-> ((i + 1) % N) + 1] }

\* Read faults other than an offline disk, one kind per read.
FaultKinds == {"missing", "rotten", "ioerr"}

blockInfo == getBlockInfo(offset, totalLength, BlockSize)
startBlock == blockInfo.startBlock
endBlock == blockInfo.endBlock
bytesToSkip == blockInfo.bytesToSkip

\* chunkSize is roughly BlockSize/DataBlocks.
chunkSize == getEncodedBlockLen(BlockSize, DataBlocks)

IsShortEndBlock(b) == b = endBlock /\ totalLength % BlockSize # 0

\* The number of payload bytes wanted from the chunks of block b.
blockSizeOf(b) == IF IsShortEndBlock(b) THEN totalLength % BlockSize ELSE BlockSize

curChunkSizeOf(b) ==
    IF IsShortEndBlock(b)
    THEN getEncodedBlockLen(totalLength % BlockSize, DataBlocks)
    ELSE chunkSize

\* Faulty variant: the offset is computed from the chunk size of the block.
blockOffsetOf_CurChunk(b) == b * curChunkSizeOf(b)

blockOffsetOf(b) == b * chunkSize

NoBlocks == [i \in Shards |-> Nil]

\* The checksums in the order of the shards.
orderedBlockCheckSums == getOrderedDisks(distribution, blockCheckSums)

\* The closure bitRotVerify: a positive verdict is remembered.
bitRotVerify(diskIndex) ==
    IF verified[diskIndex] THEN TRUE
    ELSE isValidBlock(orderedDisks[diskIndex], orderedBlockCheckSums[diskIndex])

----
(* The tree walker: keys, directory listing and treeWalk.                  *)

\* Keys are sequences of bytes; three bytes stand for the bytes below the
\* separator, the separator and the bytes above it, a fourth for the name of
\* the metadata file of an object.
Dash == 1
slashSeparator == 2
LetterA == 3
LetterX == 4

EmptyString == << >>

\* Byte-wise lexicographic order of two keys.
Less(a, b) ==
    \E i \in 1..Len(b) :
        /\ i - 1 <= Len(a)
        /\ \A j \in 1..(i - 1) : a[j] = b[j]
        /\ (i > Len(a) \/ a[i] < b[i])

HasPrefix(str, prefix) ==
    Len(prefix) <= Len(str) /\ SubSeq(str, 1, Len(prefix)) = prefix

HasSuffixSlash(str) == Len(str) > 0 /\ str[Len(str)] = slashSeparator

TrimSuffixSlash(str) == IF HasSuffixSlash(str) THEN SubSeq(str, 1, Len(str) - 1) ELSE str

TrimPrefix(str, prefix) ==
    IF HasPrefix(str, prefix) THEN SubSeq(str, Len(prefix) + 1, Len(str)) ELSE str

SlashAt(str) == {i \in 1..Len(str) : str[i] = slashSeparator}

\* strings.Index and strings.LastIndex of the separator, 0 when absent.
IndexSlash(str) ==
    IF SlashAt(str) = {} THEN 0 ELSE CHOOSE i \in SlashAt(str) : \A j \in SlashAt(str) : i <= j

LastIndexSlash(str) ==
    IF SlashAt(str) = {} THEN 0 ELSE CHOOSE i \in SlashAt(str) : \A j \in SlashAt(str) : i >= j

\* Names of one path component, and the keys an object can be stored under.
Names == {<<LetterA>>, <<LetterA, Dash>>, <<LetterA, LetterA>>}

\* Names that are used as directories of further objects.
DirNames == {<<LetterA>>, <<LetterA, Dash>>}

Keys == Names \cup {n \o <<slashSeparator>> \o m : n \in DirNames, m \in Names}

NoDir == <<0>>

\* The directories of the bucket: its root and one per directory name.
Dirs == {EmptyString} \cup {n \o <<slashSeparator>> : n \in DirNames}

\* Directories left on the disks with nothing in them; in the tree they are
\* written with their trailing separator.
EmptyDirs == {<<LetterA, slashSeparator>>, <<LetterA, LetterA, slashSeparator>>}

\* disk.ListDir: every object is a directory holding its metadata file, so
\* the entries of a directory are the sub-directories on the way to the
\* objects below it and, inside an object, the metadata file.
ListDir(prefixDir) ==
    {n \o <<slashSeparator>> :
        n \in {m \in Names : \E key \in tree :
                    HasPrefix(key \o <<slashSeparator>>,
                              prefixDir \o m \o <<slashSeparator>>)}}
    \cup (IF TrimSuffixSlash(prefixDir) \in tree THEN {<<LetterX>>} ELSE {})

DirExists(prefixDir) ==
    prefixDir = EmptyString \/ ListDir(prefixDir) # {} \/ prefixDir \in tree

\* isLeaf: the directory holds the metadata file of an object.
isLeaf(leafPath) == TrimSuffixSlash(leafPath) \in tree

\* sort.Strings over a set of distinct strings.
SortStrings(S) ==
    [i \in 1..Cardinality(S) |->
        CHOOSE e \in S : Cardinality({o \in S : Less(o, e)}) = i - 1]

\* Faulty variant: the entries are sorted before the leaf directories lose
\* their trailing separator.
listDir_SortFirst(prefixDir, entryPrefixMatch) ==
    IF prefixDir = failDir \/ ~DirExists(prefixDir)
    THEN [entries |-> << >>, err |-> TRUE]
    ELSE LET kept == {e \in ListDir(prefixDir) : HasPrefix(e, entryPrefixMatch)}
             sorted == SortStrings(kept)
         IN  [entries |-> [i \in DOMAIN sorted |->
                              IF HasSuffixSlash(sorted[i]) /\ isLeaf(prefixDir \o sorted[i])
                              THEN TrimSuffixSlash(sorted[i]) ELSE sorted[i]],
              err |-> FALSE]

\* Faulty variant: no entry is dropped by the filter.
listDir_NoFilter(prefixDir, entryPrefixMatch) ==
    IF prefixDir = failDir \/ ~DirExists(prefixDir)
    THEN [entries |-> << >>, err |-> TRUE]
    ELSE LET named == {IF HasSuffixSlash(e) /\ isLeaf(prefixDir \o e)
                       THEN TrimSuffixSlash(e) ELSE e : e \in ListDir(prefixDir)}
         IN  [entries |-> SortStrings(named), err |-> FALSE]

\* The loop of lines 210-212: the empty strings at the front are skipped.
RECURSIVE skipEmpty(_)
skipEmpty(entries) ==
    IF Len(entries) > 0 /\ Head(entries) = EmptyString
    THEN skipEmpty(Tail(entries))
    ELSE entries

\* listDir: the entries of prefixDir on the first disk that answers; those
\* not matching the prefix become empty strings, leaf directories become
\* object names, the list is sorted, which brings the empty strings to the
\* front, and these are skipped.
listDir(prefixDir, entryPrefixMatch) ==
    IF prefixDir = failDir \/ ~DirExists(prefixDir)
    THEN [entries |-> << >>, err |-> TRUE]
    ELSE LET filtered == {e \in ListDir(prefixDir) : ~HasPrefix(e, entryPrefixMatch)}
             kept == ListDir(prefixDir) \ filtered
             named == {IF HasSuffixSlash(e) /\ isLeaf(prefixDir \o e)
                       THEN TrimSuffixSlash(e) ELSE e : e \in kept}
             sorted == [i \in 1..Cardinality(filtered) |-> EmptyString] \o SortStrings(named)
         IN  [entries |-> skipEmpty(sorted), err |-> FALSE]

\* markerDir and markerBase of a marker (treeWalk, lines 226-235).
splitMarker(marker) ==
    IF marker = EmptyString THEN [dir |-> EmptyString, base |-> EmptyString]
    ELSE IF IndexSlash(marker) = 0 THEN [dir |-> marker, base |-> EmptyString]
    ELSE [dir |-> SubSeq(marker, 1, IndexSlash(marker)),
          base |-> SubSeq(marker, IndexSlash(marker) + 1, Len(marker))]

\* Faulty variant: the search also passes the entry equal to markerDir.
searchFrom_Beyond(entries, markerDir) ==
    Cardinality({i \in DOMAIN entries :
                    Less(entries[i], markerDir) \/ entries[i] = markerDir}) + 1

\* sort.Search: the first index whose entry is not below markerDir.
searchFrom(entries, markerDir) ==
    Cardinality({i \in DOMAIN entries : Less(entries[i], markerDir)}) + 1

\* Faulty variant: directories are walked into in either mode.
descends_Always(entry, recursive) ==
    HasSuffixSlash(entry)

\* treeWalk recurses into the entry (line 273).
descends(entry, recursive) ==
    recursive /\ HasSuffixSlash(entry)

RECURSIVE treeWalk(_, _, _, _, _)
RECURSIVE walkEntries(_, _, _, _, _, _)

\* treeWalk: the results sent while every send succeeds, the value of count
\* it leaves, what it returns and the directories it listed.
treeWalk(prefixDir, entryPrefixMatch, marker, recursive, count) ==
    LET m == splitMarker(marker)
        listed == listDir(prefixDir, entryPrefixMatch)
    IN  IF listed.err
        THEN [out |-> << [entry |-> EmptyString, err |-> TRUE, end |-> count = 0,
                          depth |-> Cardinality(SlashAt(prefixDir)) + 1] >>,
              count |-> count, ok |-> FALSE, dirs |-> {prefixDir}]
        ELSE IF Len(listed.entries) = 0
        THEN [out |-> << >>, count |-> count, ok |-> TRUE, dirs |-> {prefixDir}]
        ELSE LET idx == searchFrom(listed.entries, m.dir)
                 entries == SubSeq(listed.entries, idx, Len(listed.entries))
                 walk == walkEntries(prefixDir, entries, 1, m, recursive, count + Len(entries))
             IN  [walk EXCEPT !.dirs = @ \cup {prefixDir}]

\* The loop of treeWalk over the entries from the i-th on.
walkEntries(prefixDir, entries, i, m, recursive, count) ==
    IF i > Len(entries) THEN [out |-> << >>, count |-> count, ok |-> TRUE, dirs |-> {}]
    ELSE LET entry == entries[i]
         IN  IF i = 1 /\ m.dir = entry /\ (~recursive \/ ~HasSuffixSlash(entry))
             THEN \* the marker was listed by the previous listing
                  walkEntries(prefixDir, entries, i + 1, m, recursive, count - 1)
             ELSE IF descends(entry, recursive)
             THEN LET markerArg == IF entry = m.dir THEN m.base ELSE EmptyString
                      sub == treeWalk(prefixDir \o entry, EmptyString, markerArg,
                                      recursive, count - 1)
                  IN  IF ~sub.ok THEN sub
                      ELSE LET rest == walkEntries(prefixDir, entries, i + 1, m, recursive,
                                                   sub.count)
                           IN  [out |-> sub.out \o rest.out, count |-> rest.count,
                                ok |-> rest.ok, dirs |-> sub.dirs \cup rest.dirs]
             ELSE LET rest == walkEntries(prefixDir, entries, i + 1, m, recursive,
                                          count - 1)
                  IN  [out |-> << [entry |-> prefixDir \o entry, err |-> FALSE,
                                   end |-> count - 1 = 0,
                                   depth |-> Cardinality(SlashAt(prefixDir)) + 1] >>
                               \o rest.out,
                       count |-> rest.count, ok |-> rest.ok, dirs |-> rest.dirs]

\* startTreeWalk, lines 308-318 and 334: prefixDir and entryPrefixMatch of
\* the prefix, the marker without prefixDir, and the walk they give.
walkFrom(prefix, marker, recursive) ==
    LET lastIndex == LastIndexSlash(prefix)
        entryPrefixMatch == SubSeq(prefix, lastIndex + 1, Len(prefix))
        prefixDir == SubSeq(prefix, 1, lastIndex)
    IN  treeWalk(prefixDir, entryPrefixMatch, TrimPrefix(marker, prefixDir), recursive, 0)

\* The results the goroutine of startTreeWalk sends.
startTreeWalk(prefix, marker, recursive) ==
    walkFrom(prefix, marker, recursive).out

Walkers == 1..MaxWalkers

FacCallers == 1..MaxFacCallers

\* The goroutines running list calls.
Callers == 1..2

\* The bucket the list calls of SpecPool page through, and the markers
\* they are called with: none, and the keys before the last.
PoolTree ==
    {<<LetterA, Dash>>, <<LetterA, slashSeparator, LetterA>>, <<LetterA, LetterA>>}

PoolMarkers == {EmptyString, <<LetterA, Dash>>, <<LetterA, slashSeparator, LetterA>>}

\* The markers list calls begin with: the first page, and the page after it.
CallMarkers == {EmptyString, <<LetterA, Dash>>}

\* newAuthClient: not logged in yet, no token, nothing sent.
RPCIdle ==
    /\ isLoggedIn = FALSE
    /\ token = 0
    /\ tstamp = 0
    /\ rpcpc = "idle"
    /\ callErr = "none"
    /\ loginInCall = FALSE
    /\ lastEvent = "none"
    /\ issued = [token |-> 0, tstamp |-> 0]
    /\ rpcLog = << >>

\* The factory was made and its function was not called yet.
FacIdle ==
    /\ objAPI = 0
    /\ fpc = [c \in FacCallers |-> "idle"]
    /\ nsLock = 0
    /\ layers = 0
    /\ stepsRun = 0
    /\ reinit = FALSE
    /\ obtained = {}
    /\ fcalls = 0

\* A Go map without entries.
EmptyMap == [x \in {} |-> x]

\* NewIAMSys, lines 2021-2029: every map is empty, over an empty backend.
NewIAMSys ==
    [iamUsersMap |-> EmptyMap, iamPolicyDocsMap |-> {}, iamUserPolicyMap |-> EmptyMap,
     iamGroupPolicyMap |-> EmptyMap, iamGroupsMap |-> EmptyMap,
     iamUserGroupMemberships |-> EmptyMap]

EmptyStore ==
    [policyDocs |-> {}, users |-> EmptyMap, stsUsers |-> EmptyMap, groups |-> EmptyMap,
     userPolicy |-> EmptyMap, stsPolicy |-> EmptyMap, groupPolicy |-> EmptyMap]

NoCall == [op |-> "none", name |-> "", policy |-> "", isGroup |-> FALSE, err |-> "nil"]

IAMIdle ==
    /\ sys = NewIAMSys
    /\ store = EmptyStore
    /\ refreshed = NewIAMSys
    /\ ipc = "idle"
    /\ ret = NoCall
    /\ created = {}
    /\ iamOps = 0
    /\ peerWrites = 0

SrvIdle ==
    /\ FacIdle
    /\ IAMIdle

\* No walker goroutine runs, the pool is empty and no list call is under way.
WalkersIdle ==
    /\ wpc = [w \in Walkers |-> "unused"]
    /\ wparams = [w \in Walkers |-> << >>]
    /\ plan = [w \in Walkers |-> << >>]
    /\ sentN = [w \in Walkers |-> 0]
    /\ chanBuf = [w \in Walkers |-> << >>]
    /\ timedOut = [w \in Walkers |-> FALSE]
    /\ level = [w \in Walkers |-> 0]
    /\ received = [w \in Walkers |-> << >>]
    /\ listObjectMap = [m \in PoolMarkers |-> << >>]
    /\ listObjectMapMutex = 0
    /\ cpc = [c \in Callers |-> "idle"]
    /\ cmarker = [c \in Callers |-> EmptyString]
    /\ cwalker = [c \in Callers |-> 0]
    /\ cresumed = [c \in Callers |-> FALSE]
    /\ cwalkChs = [c \in Callers |-> << >>]
    /\ calls = 0

\* No walker was started.
WalkIdle ==
    /\ tree = {}
    /\ failDir = NoDir
    /\ WalkersIdle

\* No engine call is under way.
XLIdle ==
    /\ numDisks = N
    /\ xlKind = "none"
    /\ xlErr = "none"
    /\ readQuorum = 0
    /\ writeQuorum = 0
    /\ xpc = "idle"
    /\ diskErrs = << >>
    /\ dstFiles = << >>
    /\ opErr = "none"
    /\ heal = FALSE
    /\ healCalls = {}
    /\ formats = << >>
    /\ formatWrites = {}
    /\ diskOrder = << >>
    /\ boots = 0

\* Before anything is stored: an engine with its block size, N empty disks.
Init ==
    /\ BlockSize \in MinBlockSize..MaxBlockSize
    /\ totalLength = 0
    /\ offset = 0
    /\ length = 0
    /\ distribution \in Distributions
    /\ disks = [d \in PhysicalDisks |-> "ok"]
    /\ files = [d \in PhysicalDisks |-> Nil]
    /\ blockCheckSums = [d \in PhysicalDisks |-> 0]
    /\ orderedDisks = NoDisks
    /\ verified = [i \in Shards |-> FALSE]
    /\ enBlocks = NoBlocks
    /\ readDisks = NoDisks
    /\ nextIndex = 0
    /\ block = 0
    /\ bytesWritten = 0
    /\ writer = << >>
    /\ pc = "empty"
    /\ err = "none"
    /\ readLog = << >>
    /\ reconstructed = FALSE
    /\ tpc = [i \in Shards |-> "none"]
    /\ writes = {}
    /\ XLIdle
    /\ WalkIdle
    /\ RPCIdle
    /\ SrvIdle

readLocals == <<orderedDisks, verified, enBlocks, readDisks, nextIndex, block,
                bytesWritten, writer, err, readLog, reconstructed, tpc, writes>>

\* The write path stores an object of some size: the shard file of shard
\* distribution[d] goes to disk d and its checksum into the metadata.
PutObject ==
    /\ UNCHANGED <<xlVars, walkVars, rpcVars, srvVars>>
    /\ pc = "empty"
    /\ totalLength' \in 1..MaxTotalLength
    /\ UNCHANGED <<BlockSize, distribution, disks, offset, length, readLocals>>
    /\ files' = [d \in PhysicalDisks |-> ShardFile(distribution[d] - 1)']
    /\ blockCheckSums' = [d \in PhysicalDisks |-> hashSum(files'[d])]
    /\ pc' = "stored"

\* The environment: disks go offline, shard files are deleted or rot, or a
\* disk starts failing its reads.
DiskFaults ==
    /\ UNCHANGED <<xlVars, walkVars, rpcVars, srvVars>>
    /\ pc = "stored"
    /\ \E kind \in FaultKinds : disks' \in [PhysicalDisks -> {"ok", "offline", kind}]
    /\ files' = [d \in PhysicalDisks |->
            IF disks'[d] = "missing" THEN Nil
            ELSE IF disks'[d] = "rotten" THEN Rotten(files[d])
            ELSE files[d]]
    /\ pc' = "damaged"
    /\ UNCHANGED <<BlockSize, distribution, totalLength, blockCheckSums, offset, length,
                   readLocals>>

\* Damage the checksum does not show: byte p of the file differs from what
\* the encoder produced.
DamagedAt(f, p) == [f EXCEPT ![p] = (f[p] + 1) % FieldPrime]

\* The environment of a read whose checksums cannot be trusted: disks go
\* offline, and the shard file of one disk was damaged, in its first or in
\* its last chunk, before its checksum was recorded.
SilentFaults ==
    /\ UNCHANGED <<xlVars, walkVars, rpcVars, srvVars>>
    /\ pc = "stored"
    /\ \E off \in SUBSET PhysicalDisks, s \in PhysicalDisks, last \in BOOLEAN :
          /\ s \notin off
          /\ disks' = [d \in PhysicalDisks |->
                          IF d \in off THEN "offline" ELSE IF d = s THEN "silent" ELSE "ok"]
          /\ files' = [files EXCEPT ![s] =
                          DamagedAt(files[s], IF last THEN Len(files[s]) ELSE 1)]
    /\ blockCheckSums' = [d \in PhysicalDisks |-> hashSum(files'[d])]
    /\ pc' = "damaged"
    /\ UNCHANGED <<BlockSize, distribution, totalLength, offset, length, readLocals>>

\* erasureReadFile, lines 177-250: entry, up to the first block's first batch.
StartRead ==
    /\ UNCHANGED <<xlVars, walkVars, rpcVars, srvVars>>
    /\ pc = "damaged"
    /\ offset' \in 0..(totalLength - 1)
    /\ length' \in 1..(totalLength - offset')
    /\ orderedDisks' = getOrderedDisks(distribution,
            [d \in PhysicalDisks |-> IF disks[d] = "offline" THEN NilDisk ELSE d])
    /\ verified' = [i \in Shards |-> FALSE]
    /\ enBlocks' = NoBlocks
    /\ nextIndex' = 0
    /\ block' = getBlockInfo(offset', totalLength, BlockSize).startBlock
    /\ bytesWritten' = 0
    /\ writer' = << >>
    /\ readLog' = << >>
    /\ reconstructed' = FALSE
    /\ pc' = "getReadDisks"
    /\ UNCHANGED <<BlockSize, distribution, totalLength, disks, files, blockCheckSums,
                   readDisks, err, taskVars>>

inputVars == <<disks, files, blockCheckSums, distribution, BlockSize, totalLength, offset, length>>

\* erasureReadFile, lines 253-259: select the next disks to read.
GetReadDisks ==
    /\ UNCHANGED <<xlVars, walkVars, rpcVars, srvVars>>
    /\ pc = "getReadDisks"
    /\ LET r == getReadDisks(orderedDisks, nextIndex, DataBlocks)
       IN  IF r.err # "nil"
           THEN /\ pc' = "done"
                /\ err' = r.err
                /\ UNCHANGED <<readDisks, nextIndex>>
           ELSE /\ readDisks' = r.readDisks
                /\ nextIndex' = r.nextIndex
                /\ pc' = "parallelRead"
                /\ err' = err
    /\ UNCHANGED <<inputVars, orderedDisks, verified, enBlocks, block, bytesWritten, writer,
                   readLog, reconstructed, taskVars>>

\* Faulty variant: the checksum is computed on every call.
hashComputed_EveryTime(diskIndex) ==
    TRUE

\* The closure bitRotVerify computes the checksum of the shard file unless
\* the disk is already validated (lines 196-201).
hashComputed(diskIndex) ==
    ~verified[diskIndex]

\* What the read task of shard i obtains: its chunk, or Nil.
readTask(i) ==
    IF ~bitRotVerify(i) THEN Nil
    ELSE copyN(readDisks[i], blockOffsetOf(block), curChunkSizeOf(block))

\* Faulty variant: a disk that failed stays in the ordered list.
afterTask_KeepDisk(i, chunk) ==
    orderedDisks[i]

\* orderedDisks[index] after the task of shard index: nil when the
\* verification or the read failed (lines 144-158).
afterTask(i, chunk) ==
    IF chunk = Nil THEN NilDisk ELSE orderedDisks[i]

\* erasureReadFile, lines 260-268: parallelRead, all its tasks joined, and
\* the decision that follows it.
ParallelRead ==
    /\ UNCHANGED <<xlVars, walkVars, rpcVars, srvVars>>
    /\ pc = "parallelRead"
    /\ LET chunks == [i \in Shards |-> IF readDisks[i] # NilDisk THEN readTask(i) ELSE Nil]
       IN  /\ orderedDisks' = [i \in Shards |->
                    IF readDisks[i] # NilDisk THEN afterTask(i, chunks[i]) ELSE orderedDisks[i]]
           /\ readLog' = Append(readLog,
                    [block |-> block,
                     disks |-> {i \in Shards : readDisks[i] # NilDisk},
                     hashed |-> {i \in Shards : readDisks[i] # NilDisk /\ hashComputed(i)},
                     failed |-> {i \in Shards : readDisks[i] # NilDisk /\ chunks[i] = Nil},
                     offset |-> blockOffsetOf(block),
                     size |-> curChunkSizeOf(block)])
           /\ enBlocks' = [i \in Shards |->
                    IF readDisks[i] # NilDisk /\ chunks[i] # Nil
                    THEN chunks[i] ELSE enBlocks[i]]
    /\ verified' = [i \in Shards |->
            IF readDisks[i] # NilDisk THEN bitRotVerify(i) ELSE verified[i]]
    /\ IF isSuccessDecodeBlocks(enBlocks', DataBlocks)
       THEN /\ pc' = IF isSuccessDataBlocks(enBlocks', DataBlocks) THEN "write" ELSE "decode"
            /\ err' = err
       ELSE IF nextIndex = N
       THEN /\ pc' = "done"
            /\ err' = "errXLReadQuorum"
       ELSE /\ pc' = "getReadDisks"
            /\ err' = err
    /\ UNCHANGED <<inputVars, readDisks, nextIndex, block, bytesWritten, writer, reconstructed,
                   taskVars>>

\* Faulty variant: the verdict of the verification is dropped.
DecodeData_IgnoreVerify ==
    /\ UNCHANGED <<xlVars, walkVars, rpcVars, srvVars>>
    /\ pc = "decode"
    /\ IF PresentCount(enBlocks) < DataBlocks
       THEN /\ pc' = "done"
            /\ err' = "ErrTooFewShards"
            /\ enBlocks' = enBlocks
       ELSE /\ enBlocks' = Reconstruct(enBlocks)
            /\ pc' = "write" /\ err' = err
    /\ reconstructed' = TRUE
    /\ UNCHANGED <<inputVars, orderedDisks, verified, readDisks, nextIndex, block,
                   bytesWritten, writer, readLog, taskVars>>

\* decodeData: reconstruct the missing shards and verify the stripe.
DecodeData ==
    /\ UNCHANGED <<xlVars, walkVars, rpcVars, srvVars>>
    /\ pc = "decode"
    /\ IF PresentCount(enBlocks) < DataBlocks
       THEN /\ pc' = "done"
            /\ err' = "ErrTooFewShards"
            /\ enBlocks' = enBlocks
       ELSE /\ enBlocks' = Reconstruct(enBlocks)
            /\ IF Verify(enBlocks')
               THEN pc' = "write" /\ err' = err
               ELSE pc' = "done" /\ err' = "errVerification"
    /\ reconstructed' = TRUE
    /\ UNCHANGED <<inputVars, orderedDisks, verified, readDisks, nextIndex, block,
                   bytesWritten, writer, readLog, taskVars>>

outOffsetOf(b) == IF b = startBlock THEN bytesToSkip ELSE 0

\* Faulty variant: no byte of the block is asked for.
outSizeOf_Nothing(b, written) ==
    0

\* Faulty variant: the size is not clipped to what is still asked for.
outSizeOf_NoClip(b, written) ==
    blockSizeOf(b)

\* The number of bytes of block b to hand to the writer (lines 282-286).
outSizeOf(b, written) ==
    IF length - written < blockSizeOf(b) THEN length - written ELSE blockSizeOf(b)

\* Faulty variant: the next block goes on from the index the last one reached.
WriteDataBlocks_KeepIndex ==
    /\ UNCHANGED <<xlVars, walkVars, rpcVars, srvVars>>
    /\ pc = "write"
    /\ LET out == writeDataBlocks(enBlocks, DataBlocks, outOffsetOf(block),
                                  outSizeOf(block, bytesWritten))
       IN  /\ writer' = writer \o out
           /\ bytesWritten' = bytesWritten + Len(out)
    /\ IF bytesWritten' < length
       THEN /\ block' = block + 1
            /\ enBlocks' = NoBlocks
            /\ nextIndex' = nextIndex
            /\ reconstructed' = FALSE
            /\ pc' = "getReadDisks"
            /\ err' = err
       ELSE /\ pc' = "done"
            /\ err' = "nil"
            /\ UNCHANGED <<block, enBlocks, nextIndex, reconstructed>>
    /\ UNCHANGED <<inputVars, orderedDisks, verified, readDisks, readLog, taskVars>>

\* erasureReadFile, lines 279-300: write the block and go to the next one.
WriteDataBlocks ==
    /\ UNCHANGED <<xlVars, walkVars, rpcVars, srvVars>>
    /\ pc = "write"
    /\ LET out == writeDataBlocks(enBlocks, DataBlocks, outOffsetOf(block),
                                  outSizeOf(block, bytesWritten))
       IN  /\ writer' = writer \o out
           /\ bytesWritten' = bytesWritten + Len(out)
    /\ IF bytesWritten' < length
       THEN /\ block' = block + 1
            /\ enBlocks' = NoBlocks
            /\ nextIndex' = 0
            /\ reconstructed' = FALSE
            /\ pc' = "getReadDisks"
            /\ err' = err
       ELSE /\ pc' = "done"
            /\ err' = "nil"
            /\ UNCHANGED <<block, enBlocks, nextIndex, reconstructed>>
    /\ UNCHANGED <<inputVars, orderedDisks, verified, readDisks, readLog, taskVars>>

Next ==
    \/ PutObject
    \/ DiskFaults
    \/ StartRead
    \/ GetReadDisks
    \/ ParallelRead
    \/ DecodeData
    \/ WriteDataBlocks

Spec == Init /\ [][Next]_vars

\* Reads of an object one of whose shard files is damaged under a matching
\* checksum.
NextSilent ==
    \/ PutObject
    \/ SilentFaults
    \/ StartRead
    \/ GetReadDisks
    \/ ParallelRead
    \/ DecodeData
    \/ WriteDataBlocks

SpecSilent == Init /\ [][NextSilent]_vars

----
(* parallelRead at the grain of its routines: one task per selected disk,  *)
(* each a verification step followed by a copy step, joined by wg.Wait().  *)

\* The most disks that are faulty when the tasks are followed one by one.
MaxTaskFaults == 2

\* The environment of such a read: at most MaxTaskFaults faulty disks.
TaskFaults ==
    /\ DiskFaults
    /\ Cardinality({d \in PhysicalDisks : disks'[d] # "ok"}) <= MaxTaskFaults

\* A read of the whole object.
StartReadFull ==
    /\ StartRead
    /\ offset' = 0
    /\ length' = totalLength

\* Faulty variant: the routines share the loop variable, which has reached
\* the last selected disk when they run.
indexOf_Shared(index) ==
    CHOOSE m \in Shards :
        /\ readDisks[m] # NilDisk
        /\ \A j \in Shards : readDisks[j] # NilDisk => j <= m

\* The slot the routine started for readDisks[index] works on: index is
\* passed to the routine as its argument (lines 140 and 165).
indexOf(index) ==
    index

\* parallelRead, lines 131-140: a routine is started for every selected disk.
Spawn ==
    /\ UNCHANGED <<xlVars, walkVars, rpcVars, srvVars>>
    /\ pc = "parallelRead"
    /\ tpc' = [i \in Shards |-> IF readDisks[i] # NilDisk THEN "verify" ELSE "none"]
    /\ writes' = {}
    /\ pc' = "wait"
    /\ UNCHANGED <<inputVars, orderedDisks, verified, enBlocks, readDisks, nextIndex, block,
                   bytesWritten, writer, err, readLog, reconstructed>>

\* The routine of shard i, lines 143-148: the bit-rot verification.
TaskVerify(i) ==
    /\ UNCHANGED <<xlVars, walkVars, rpcVars, srvVars>>
    /\ pc = "wait"
    /\ tpc[i] = "verify"
    /\ LET index == indexOf(i)
           isValid == bitRotVerify(index)
       IN  /\ verified' = IF hashComputed(index)
                          THEN [verified EXCEPT ![index] = isValid]
                          ELSE verified
           /\ orderedDisks' = IF isValid THEN orderedDisks
                              ELSE [orderedDisks EXCEPT ![index] = NilDisk]
           /\ writes' = writes
                  \cup (IF hashComputed(index)
                        THEN {[task |-> i, array |-> "verified", slot |-> index]} ELSE {})
                  \cup (IF isValid THEN {}
                        ELSE {[task |-> i, array |-> "orderedDisks", slot |-> index]})
           /\ tpc' = [tpc EXCEPT ![i] = IF isValid THEN "copy" ELSE "done"]
    /\ UNCHANGED <<inputVars, enBlocks, readDisks, nextIndex, block, bytesWritten, writer,
                   pc, err, readLog, reconstructed>>

\* The routine of shard i, lines 150-164: the chunk is copied from the disk.
TaskCopy(i) ==
    /\ UNCHANGED <<xlVars, walkVars, rpcVars, srvVars>>
    /\ pc = "wait"
    /\ tpc[i] = "copy"
    /\ LET index == indexOf(i)
           chunk == copyN(readDisks[index], blockOffsetOf(block), curChunkSizeOf(block))
       IN  IF chunk = Nil
           THEN /\ orderedDisks' = [orderedDisks EXCEPT ![index] = NilDisk]
                /\ enBlocks' = enBlocks
                /\ writes' = writes \cup {[task |-> i, array |-> "orderedDisks", slot |-> index]}
           ELSE /\ enBlocks' = [enBlocks EXCEPT ![index] = chunk]
                /\ orderedDisks' = orderedDisks
                /\ writes' = writes \cup {[task |-> i, array |-> "enBlocks", slot |-> index]}
    /\ tpc' = [tpc EXCEPT ![i] = "done"]
    /\ UNCHANGED <<inputVars, verified, readDisks, nextIndex, block, bytesWritten, writer,
                   pc, err, readLog, reconstructed>>

\* wg.Wait() returns (line 169) and erasureReadFile decides on the block
\* (lines 262-268).
Join ==
    /\ UNCHANGED <<xlVars, walkVars, rpcVars, srvVars>>
    /\ pc = "wait"
    /\ \A i \in Shards : tpc[i] \in {"none", "done"}
    /\ tpc' = [i \in Shards |-> "none"]
    /\ writes' = {}
    /\ readLog' = Append(readLog,
            [block |-> block,
             disks |-> {i \in Shards : readDisks[i] # NilDisk},
             hashed |-> {w.slot : w \in {v \in writes : v.array = "verified"}},
             failed |-> {i \in Shards : readDisks[i] # NilDisk /\ enBlocks[i] = Nil},
             offset |-> blockOffsetOf(block),
             size |-> curChunkSizeOf(block)])
    /\ IF isSuccessDecodeBlocks(enBlocks, DataBlocks)
       THEN /\ pc' = IF isSuccessDataBlocks(enBlocks, DataBlocks) THEN "write" ELSE "decode"
            /\ err' = err
       ELSE IF nextIndex = N
       THEN /\ pc' = "done"
            /\ err' = "errXLReadQuorum"
       ELSE /\ pc' = "getReadDisks"
            /\ err' = err
    /\ UNCHANGED <<inputVars, orderedDisks, verified, enBlocks, readDisks, nextIndex, block,
                   bytesWritten, writer, reconstructed>>

NextPar ==
    \/ PutObject
    \/ TaskFaults
    \/ StartReadFull
    \/ GetReadDisks
    \/ Spawn
    \/ \E i \in Shards : TaskVerify(i)
    \/ \E i \in Shards : TaskCopy(i)
    \/ Join
    \/ DecodeData
    \/ WriteDataBlocks

SpecPar == Init /\ [][NextPar]_vars

----
(* Reads during which disks start to fail.                                 *)

\* The environment of such a read: some disks are offline, or some serve
\* the first chunk of their shard file and fail every later read.
LateFaults ==
    /\ UNCHANGED <<xlVars, walkVars, rpcVars, srvVars>>
    /\ pc = "stored"
    /\ \E kind \in {"offline", "late"} : disks' \in [PhysicalDisks -> {"ok", kind}]
    /\ pc' = "damaged"
    /\ UNCHANGED <<BlockSize, distribution, totalLength, files, blockCheckSums, offset, length,
                   readLocals>>

NextLate ==
    \/ PutObject
    \/ LateFaults
    \/ StartRead
    \/ GetReadDisks
    \/ ParallelRead
    \/ DecodeData
    \/ WriteDataBlocks

SpecLate == Init /\ [][NextLate]_vars

\* erasureReadFile runs in the goroutine of its caller, which the scheduler
\* keeps running; parallelRead waits for routines that all return.
ReadStep ==
    \/ StartRead
    \/ GetReadDisks
    \/ ParallelRead
    \/ DecodeData
    \/ WriteDataBlocks

SpecLateFair == SpecLate /\ WF_vars(ReadStep)

TypeOK ==
    /\ pc \in {"empty", "stored", "damaged", "getReadDisks", "parallelRead", "decode", "write", "done"}
    /\ bytesWritten = Len(writer)

----
(* Properties of the read path.                                            *)

AllHealthy == \A d \in PhysicalDisks : disks[d] = "ok"

\* The bytes the caller asked for.
Wanted == SubSeq(Content, offset + 1, offset + length)

Done == pc = "done"

\* C1: on N healthy disks a read of (offset, length) delivers exactly the
\* bytes offset .. offset+length of the object, for every block size.
C1_RangeRead ==
    (Done /\ AllHealthy) => (err = "nil" /\ writer = Wanted)

FullRead == offset = 0 /\ length = totalLength

Reading == pc \in {"getReadDisks", "parallelRead", "decode", "write", "done"}

Success == Done /\ err = "nil"

\* The shard stored on physical disk d.
ShardOf(d) == distribution[d] - 1

DisksIn(states) == {d \in PhysicalDisks : disks[d] \in states}

Unavailable == DisksIn({"offline", "missing"})

DataDisksHealthy == \A d \in PhysicalDisks : ShardOf(d) < DataBlocks => disks[d] = "ok"

\* C2 as stated: with any k <= N/2 disks unavailable the full read succeeds
\* and yields the original content.
C2_Original ==
    (Done /\ FullRead /\ DisksIn({"rotten", "ioerr"}) = {}
          /\ Cardinality(Unavailable) <= N \div 2)
        => (err = "nil" /\ writer = Content)

\* C2 amended: the full read succeeds with the original content when at most
\* N/2-1 disks are unavailable, or N/2 disks none of which holds a data
\* shard; with N/2 disks unavailable and a data shard among them it fails
\* with the read-quorum error.
C2_Durability ==
    (Done /\ FullRead /\ DisksIn({"rotten", "ioerr"}) = {})
        => /\ (\/ Cardinality(Unavailable) <= N \div 2 - 1
               \/ (Cardinality(Unavailable) = N \div 2 /\ DataDisksHealthy))
                  => (err = "nil" /\ writer = Content)
           /\ (Cardinality(Unavailable) = N \div 2 /\ ~DataDisksHealthy)
                  => (err = "errXLReadQuorum" /\ writer = << >>)

C2_Witness ==
    /\ Success /\ FullRead /\ writer = Content
    /\ DisksIn({"rotten", "ioerr"}) = {}
    /\ Cardinality(Unavailable) = N \div 2 - 1
    /\ ~DataDisksHealthy
    /\ totalLength > BlockSize

\* Shards whose disk was selected for the current block and is still alive:
\* the disks that returned a valid chunk for it.
Returned == {i \in Shards : i < nextIndex /\ orderedDisks[i] # NilDisk}

\* Between two batches of a block, and after it.
BatchesJoined == pc \in {"getReadDisks", "decode", "write", "done"}

\* C3: with at most N/2-1 shard files failing their checksum the full read
\* succeeds with the original bytes, and a shard whose hash mismatches is
\* dropped like a missing one: never verified, and dead once it was tried.
C3_BitRotRepair ==
    (Reading /\ DisksIn({"offline", "missing", "ioerr"}) = {}
             /\ Cardinality(DisksIn({"rotten"})) <= N \div 2 - 1)
        => /\ (Done /\ FullRead) => (err = "nil" /\ writer = Content)
           /\ \A i \in Shards :
                (orderedDisks[i] # NilDisk /\ disks[orderedDisks[i]] = "rotten")
                    => (~verified[i] /\ (BatchesJoined => i >= nextIndex))

C3_Witness ==
    /\ Success /\ FullRead /\ writer = Content
    /\ DisksIn({"offline", "missing", "ioerr"}) = {}
    /\ Cardinality(DisksIn({"rotten"})) = N \div 2 - 1
    /\ ~DataDisksHealthy
    /\ totalLength > BlockSize

\* C4: every byte delivered to the sink is the byte of the object at that
\* place, whatever the disks do and however the call ends.
C4_NoWrongBytes ==
    Reading => \A k \in 1..Len(writer) :
                    offset + k <= totalLength /\ writer[k] = Content[offset + k]

\* The error of the CorruptedData kind: verification after reconstruction failed.
CorruptedData == "errVerification"

\* C5 as stated: with N/2+1 or more corrupted shard files the read fails with
\* an error of the CorruptedData kind.
C5_Original ==
    (Done /\ Cardinality(DisksIn({"rotten"})) >= N \div 2 + 1) => err = CorruptedData

\* C5 amended: with N/2+1 or more corrupted shard files the read fails with
\* the read-quorum error and delivers no byte.
C5_CorruptedQuorum ==
    (Done /\ Cardinality(DisksIn({"rotten"})) >= N \div 2 + 1)
        => (err = "errXLReadQuorum" /\ writer = << >>)

C5_Witness ==
    /\ Done /\ Cardinality(DisksIn({"rotten"})) = N \div 2 + 1
    /\ err = "errXLReadQuorum"
    /\ \E i \in Shards : verified[i]

\* C6: with more than N/2 shard files missing the read returns the
\* read-quorum error for the first block it attempts, writes nothing and
\* never reports success.
C6_MissingQuorum ==
    (Reading /\ Cardinality(DisksIn({"missing"})) > N \div 2)
        => /\ writer = << >>
           /\ block = startBlock
           /\ pc \in {"getReadDisks", "parallelRead", "done"}
           /\ Done => err = "errXLReadQuorum"

C6_Witness ==
    /\ Done /\ Cardinality(DisksIn({"missing"})) = N \div 2 + 1
    /\ err = "errXLReadQuorum"
    /\ \E i \in Shards : verified[i]

BlockRead == pc \in {"decode", "write"} \/ Success

\* C7 as stated: a block is reported read only if at least N/2+1 disks
\* returned valid shard data for it.
C7_Original ==
    BlockRead => Cardinality(Returned) >= N \div 2 + 1

\* C7 amended: a block is reported read only if all N/2 data-shard disks
\* returned valid data for it, or at least N/2+1 disks did.
C7_ReadQuorum ==
    BlockRead => \/ \A i \in 0..(DataBlocks - 1) : i \in Returned
                 \/ Cardinality(Returned) >= N \div 2 + 1

C7_Witness ==
    /\ pc = "decode"
    /\ Cardinality(Returned) = N \div 2 + 1
    /\ nextIndex = N

----
(* The engine: construction and the quorum decisions of XL.                *)

\* Faulty variant: the parity of the count is checked first.
checkSufficientDisks_ParityFirst(totalDisks) ==
    IF totalDisks % 2 # 0 THEN "errXLNumDisks"
    ELSE IF totalDisks > maxErasureBlocks THEN "errXLMaxDisks"
    ELSE IF totalDisks < minErasureBlocks THEN "errXLMinDisks"
    ELSE "nil"

\* Validate if input disks are sufficient for initializing XL.
checkSufficientDisks(totalDisks) ==
    IF totalDisks > maxErasureBlocks THEN "errXLMaxDisks"
    ELSE IF totalDisks < minErasureBlocks THEN "errXLMinDisks"
    ELSE IF totalDisks % 2 # 0 THEN "errXLNumDisks"
    ELSE "nil"

\* The write quorum newXL computes.
newXLWriteQuorum(n) ==
    IF n \div 2 + 3 > n THEN n ELSE n \div 2 + 3

\* What a disk answers for its format document when it holds none, and when
\* it cannot be reached.
Unformatted == 0
Offline == -1

\* No read is under way.
ReadIdle ==
    /\ BlockSize = MinBlockSize
    /\ totalLength = 0
    /\ offset = 0
    /\ length = 0
    /\ distribution = CHOOSE d \in Distributions : TRUE
    /\ disks = [d \in PhysicalDisks |-> "ok"]
    /\ files = [d \in PhysicalDisks |-> Nil]
    /\ blockCheckSums = [d \in PhysicalDisks |-> 0]
    /\ orderedDisks = NoDisks
    /\ verified = [i \in Shards |-> FALSE]
    /\ enBlocks = NoBlocks
    /\ readDisks = NoDisks
    /\ nextIndex = 0
    /\ block = 0
    /\ bytesWritten = 0
    /\ writer = << >>
    /\ pc = "idle"
    /\ err = "none"
    /\ readLog = << >>
    /\ reconstructed = FALSE
    /\ tpc = [i \in Shards |-> "none"]
    /\ writes = {}

\* A list of disks is about to be handed to a constructor.
InitXL ==
    /\ ReadIdle
    /\ WalkIdle
    /\ RPCIdle
    /\ SrvIdle
    /\ numDisks \in 0..MaxDisks
    /\ xlKind = "none"
    /\ xlErr = "none"
    /\ readQuorum = 0
    /\ writeQuorum = 0
    /\ xpc = "new"
    /\ diskErrs = << >>
    /\ dstFiles = [i \in 1..numDisks |-> FALSE]
    /\ opErr = "none"
    /\ heal = FALSE
    /\ healCalls = {}
    /\ formats = [i \in 1..numDisks |-> Unformatted]
    /\ formatWrites = {}
    /\ diskOrder = << >>
    /\ boots = 0

\* Slot assignments found on formatted disks: each disk at its own position,
\* the disks moved round by one, and two disks claiming the same slot.
FormatOrders(n) ==
    { [i \in 1..n |-> i],
      [i \in 1..n |-> (i % n) + 1],
      [i \in 1..n |-> IF i = 1 THEN 2 ELSE i] }

\* What the disks hold when an engine is first constructed over them.
DisksFormatted ==
    /\ UNCHANGED <<readVars, walkVars, rpcVars, srvVars>>
    /\ xpc = "new"
    /\ checkSufficientDisks(numDisks) = "nil"
    /\ numDisks <= MaxOpDisks
    /\ \E order \in FormatOrders(numDisks) :
         \E state \in [1..numDisks -> {Unformatted, Offline, 1}] :
            formats' = [i \in 1..numDisks |-> IF state[i] = 1 THEN order[i] ELSE state[i]]
    /\ xpc' = "formatted"
    /\ UNCHANGED <<numDisks, xlKind, xlErr, readQuorum, writeQuorum, diskErrs, dstFiles, opErr,
                   heal, healCalls, formatWrites, diskOrder, boots>>

Formatted(f) == {i \in DOMAIN f : f[i] >= 1}

\* loadAllFormats: the error each disk answers when its format is loaded.
loadAllFormats(f) ==
    [i \in DOMAIN f |-> IF f[i] = Unformatted THEN "errUnformattedDisk"
                        ELSE IF f[i] = Offline THEN "errDiskNotFound"
                        ELSE "nil"]

\* genericFormatCheck: no quorum of reachable disks, or formats that disagree.
genericFormatCheck(f) ==
    IF Cardinality({i \in DOMAIN f : f[i] = Offline}) > Len(f) - (Len(f) \div 2 + 1)
    THEN "errFormat"
    ELSE IF \E i, j \in Formatted(f) : i # j /\ f[i] = f[j]
         THEN "errFormat"
         ELSE "nil"

\* reduceFormatErrs: classify the vector of load errors.
reduceFormatErrs(sErrs, diskCount) ==
    LET unformatted == Cardinality({i \in DOMAIN sErrs : sErrs[i] = "errUnformattedDisk"})
        notFound == Cardinality({i \in DOMAIN sErrs : sErrs[i] = "errDiskNotFound"})
    IN  IF unformatted = diskCount THEN "errUnformattedDisk"
        ELSE IF notFound > 0 THEN "errSomeDiskOffline"
        ELSE IF unformatted > 0 THEN "errSomeDiskUnformatted"
        ELSE "nil"

\* initFormatXL: a fresh format on every disk, each at its own position.
initFormatXL(f) == [i \in DOMAIN f |-> i]

Rank(S, x) == Cardinality({y \in S : y < x})

\* healFormatXL: the unformatted disks receive the slots no disk claims.
healFormatXL(f) ==
    LET missing == {i \in DOMAIN f : f[i] = Unformatted}
        free == (DOMAIN f) \ {f[i] : i \in Formatted(f)}
    IN  [i \in DOMAIN f |->
            IF i \in missing
            THEN CHOOSE s \in free : Rank(free, s) = Rank(missing, i)
            ELSE f[i]]

\* loadFormatXL: the disks in the order their formats name, or an error when
\* fewer than a read quorum of them carries a format.
loadFormatXL(f) ==
    IF Cardinality(Formatted(f)) < Len(f) \div 2 + 1
    THEN [err |-> "errFormat", disks |-> << >>]
    ELSE [err |-> "nil",
          disks |-> [s \in DOMAIN f |->
                        IF \E i \in Formatted(f) : f[i] = s
                        THEN CHOOSE i \in Formatted(f) : f[i] = s
                        ELSE 0]]

\* Faulty variant: a fresh format is written whatever the disks hold.
formatSwitch_AlwaysInit(f) ==
    [formats |-> initFormatXL(f), writes |-> DOMAIN f]

\* The switch of newXLObjects on reduceFormatErrs: the formats on the disks
\* after it, and the disks a format was written to.
formatSwitch(f) ==
    LET reduced == reduceFormatErrs(loadAllFormats(f), Len(f))
    IN  IF reduced = "errUnformattedDisk"
        THEN [formats |-> initFormatXL(f), writes |-> DOMAIN f]
        ELSE IF reduced = "errSomeDiskUnformatted"
        THEN [formats |-> healFormatXL(f), writes |-> {i \in DOMAIN f : f[i] = Unformatted}]
        ELSE [formats |-> f, writes |-> {}]

\* newXLObjects - initialize new xl object layer.
NewXLObjects ==
    /\ UNCHANGED <<readVars, walkVars, rpcVars, srvVars>>
    /\ xpc \in {"new", "formatted"}
    /\ IF checkSufficientDisks(numDisks) # "nil"
       THEN /\ xlErr' = checkSufficientDisks(numDisks)
            /\ xpc' = "failed"
            /\ UNCHANGED <<xlKind, readQuorum, writeQuorum, fmtVars>>
       ELSE IF genericFormatCheck(formats) # "nil"
       THEN /\ xlErr' = genericFormatCheck(formats)
            /\ xpc' = "failed"
            /\ formatWrites' = {}
            /\ UNCHANGED <<xlKind, readQuorum, writeQuorum, formats, diskOrder, boots>>
       ELSE LET switched == formatSwitch(formats)
                loaded == loadFormatXL(switched.formats)
            IN  /\ formats' = switched.formats
                /\ formatWrites' = switched.writes
                /\ \E houseKeepingErr \in BOOLEAN :
                     IF houseKeepingErr \/ loaded.err # "nil"
                     THEN /\ xlErr' = "errFormat"
                          /\ xpc' = "failed"
                          /\ UNCHANGED <<xlKind, readQuorum, writeQuorum, diskOrder, boots>>
                     ELSE /\ xlErr' = "nil"
                          /\ xlKind' = "xlObjects"
                          /\ diskOrder' = loaded.disks
                          /\ readQuorum' = Len(loaded.disks) \div 2 + 1
                          /\ writeQuorum' = Len(loaded.disks) \div 2 + 1
                          /\ boots' = boots + 1
                          /\ xpc' = "constructed"
    /\ UNCHANGED <<numDisks, diskErrs, dstFiles, opErr, heal, healCalls>>

\* The engine goes away and another one is constructed over the same disks.
Restart ==
    /\ UNCHANGED <<readVars, walkVars, rpcVars, srvVars>>
    /\ xpc = "constructed"
    /\ xlKind = "xlObjects"
    /\ boots < MaxBoots
    /\ xlKind' = "none"
    /\ xlErr' = "none"
    /\ readQuorum' = 0
    /\ writeQuorum' = 0
    /\ xpc' = "formatted"
    /\ UNCHANGED <<numDisks, diskErrs, dstFiles, opErr, heal, healCalls, fmtVars>>

\* newXL instantiate a new XL.
NewXL ==
    /\ UNCHANGED <<readVars, walkVars, rpcVars, srvVars>>
    /\ UNCHANGED fmtVars
    /\ xpc = "new"
    /\ IF numDisks \div 2 = 0
       THEN \* reedsolomon.New refuses zero data shards
            /\ xlErr' = "ErrInvShardNum"
            /\ xpc' = "failed"
            /\ UNCHANGED <<xlKind, readQuorum, writeQuorum>>
       ELSE /\ xlErr' = "nil"
            /\ xlKind' = "XL"
            /\ readQuorum' = numDisks \div 2 + 1
            /\ writeQuorum' = newXLWriteQuorum(numDisks)
            /\ xpc' = "constructed"
    /\ UNCHANGED <<numDisks, diskErrs, dstFiles, opErr, heal, healCalls>>

RECURSIVE deleteXLFiles(_, _, _)
\* deleteXLFiles - delete all XL backend files, disk by disk from disk i on;
\* deleting from a disk that does not hold the files is an error.
deleteXLFiles(fs, i, errCount) ==
    IF i > numDisks THEN [files |-> fs, err |-> "nil"]
    ELSE IF fs[i] THEN deleteXLFiles([fs EXCEPT ![i] = FALSE], i + 1, errCount)
    ELSE IF errCount + 1 <= numDisks - writeQuorum
         THEN deleteXLFiles(fs, i + 1, errCount + 1)
         ELSE [files |-> fs, err |-> "errFileNotFound"]

\* The errs slice RenameFile collects from the answers of the disks: every
\* task ends by storing nil into its slot.
renameErrs(answers) == [i \in DOMAIN answers |-> "nil"]

ErrCount(errs) == Cardinality({i \in DOMAIN errs : errs[i] # "nil"})

\* RenameFile - rename file.
RenameFile ==
    /\ UNCHANGED <<readVars, walkVars, rpcVars, srvVars>>
    /\ UNCHANGED fmtVars
    /\ xpc = "constructed"
    /\ xlKind = "XL"
    /\ numDisks <= MaxOpDisks
    /\ \E validArgs \in BOOLEAN :
         IF ~validArgs
         THEN /\ opErr' = "errInvalidArgument"
              /\ UNCHANGED <<diskErrs, dstFiles>>
         ELSE \E answers \in [1..numDisks -> {"nil", "errDiskFailed"}] :
                LET errs == renameErrs(answers)
                    errCount == ErrCount(errs)
                    renamed == [i \in 1..numDisks |-> answers[i] = "nil"]
                IN  /\ diskErrs' = answers
                    /\ IF errCount > numDisks - writeQuorum
                       THEN IF errCount <= numDisks - readQuorum
                            THEN /\ opErr' = "nil"
                                 /\ dstFiles' = renamed
                            ELSE /\ opErr' = "errWriteQuorum"
                                 /\ dstFiles' = deleteXLFiles(renamed, 1, 0).files
                       ELSE /\ opErr' = "nil"
                            /\ dstFiles' = renamed
    /\ xpc' = "called"
    /\ UNCHANGED <<numDisks, xlKind, xlErr, readQuorum, writeQuorum, heal, healCalls>>

\* What a disk of the engine answers to MakeVol; "offline" stands for a nil
\* entry of storageDisks, which is never called.
MakeVolAnswers == {"offline", "nil", "errVolumeExists", "errDiskFailed"}

\* The dErrs slice of MakeVol: the slot of a nil disk keeps its zero value.
makeVolErrs(answers) ==
    [i \in DOMAIN answers |-> IF answers[i] = "offline" THEN "nil" ELSE answers[i]]

\* MakeVol - make a volume.
MakeVol ==
    /\ UNCHANGED <<readVars, walkVars, rpcVars, srvVars>>
    /\ UNCHANGED fmtVars
    /\ xpc = "constructed"
    /\ xlKind = "XL"
    /\ numDisks <= MaxOpDisks
    /\ \E validVolname \in BOOLEAN :
         IF ~validVolname
         THEN /\ opErr' = "errInvalidArgument"
              /\ UNCHANGED diskErrs
         ELSE \E answers \in [1..numDisks -> MakeVolAnswers] :
                LET dErrs == makeVolErrs(answers)
                    volumeExistsErrCnt ==
                        Cardinality({i \in DOMAIN dErrs : dErrs[i] = "errVolumeExists"})
                    createVolErr ==
                        Cardinality({i \in DOMAIN dErrs :
                                        dErrs[i] \notin {"nil", "errVolumeExists"}})
                IN  /\ diskErrs' = answers
                    /\ opErr' = IF volumeExistsErrCnt = numDisks THEN "errVolumeExists"
                                ELSE IF createVolErr > numDisks - writeQuorum
                                     THEN "errWriteQuorum"
                                     ELSE "nil"
    /\ xpc' = "madeVol"
    /\ UNCHANGED <<numDisks, xlKind, xlErr, readQuorum, writeQuorum, dstFiles, heal, healCalls>>

\* What a disk of the engine answers to StatVol; "offline" stands for a nil
\* entry of storageDisks, on which the call panics.
StatVolAnswers == {"offline", "nil", "errVolumeNotFound", "errDiskNotFound"}

RECURSIVE notFoundExceeded(_, _, _)
\* The first loop of listAllVolInfo from slot i on: TRUE when the count of
\* errVolumeNotFound passes len(storageDisks) - readQuorum.
notFoundExceeded(errs, i, notFoundCount) ==
    IF i > Len(errs) THEN FALSE
    ELSE IF errs[i] = "errVolumeNotFound"
         THEN IF notFoundCount + 1 > numDisks - readQuorum
              THEN TRUE
              ELSE notFoundExceeded(errs, i + 1, notFoundCount + 1)
         ELSE notFoundExceeded(errs, i + 1, notFoundCount)

\* Faulty variant: the heal verdict set before the quorum check is returned
\* with the error.
listAllVolInfo_HealOnLoss(errs) ==
    IF notFoundExceeded(errs, 1, 0) THEN [heal |-> FALSE, err |-> "errVolumeNotFound"]
    ELSE LET onlineDiskCount == Cardinality({i \in DOMAIN errs : errs[i] = "nil"})
         IN  IF onlineDiskCount < numDisks
             THEN IF onlineDiskCount < readQuorum
                  THEN [heal |-> TRUE, err |-> "errReadQuorum"]
                  ELSE [heal |-> TRUE, err |-> "nil"]
             ELSE [heal |-> FALSE, err |-> "nil"]

\* listAllVolInfo - list all stat volume info from all disks: whether healing
\* is necessary, and the error if any.
listAllVolInfo(errs) ==
    IF notFoundExceeded(errs, 1, 0) THEN [heal |-> FALSE, err |-> "errVolumeNotFound"]
    ELSE LET onlineDiskCount == Cardinality({i \in DOMAIN errs : errs[i] = "nil"})
         IN  IF onlineDiskCount < numDisks
             THEN IF onlineDiskCount < readQuorum
                  THEN [heal |-> FALSE, err |-> "errReadQuorum"]
                  ELSE [heal |-> TRUE, err |-> "nil"]
             ELSE [heal |-> FALSE, err |-> "nil"]

\* StatVol - get volume stat info.
StatVol ==
    /\ UNCHANGED <<readVars, walkVars, rpcVars, srvVars>>
    /\ UNCHANGED fmtVars
    /\ xpc = "constructed"
    /\ xlKind = "XL"
    /\ numDisks <= MaxOpDisks
    /\ \E validVolname \in BOOLEAN :
         IF ~validVolname
         THEN /\ opErr' = "errInvalidArgument"
              /\ xpc' = "statVol"
              /\ UNCHANGED <<diskErrs, heal>>
         ELSE \E answers \in [1..numDisks -> StatVolAnswers] :
                /\ diskErrs' = answers
                /\ IF \E i \in 1..numDisks : answers[i] = "offline"
                   THEN \* the StatVol task of a nil disk panics
                        /\ opErr' = "panic"
                        /\ xpc' = "crashed"
                        /\ UNCHANGED heal
                   ELSE LET r == listAllVolInfo(answers)
                        IN  /\ opErr' = r.err
                            /\ heal' = r.heal
                            /\ xpc' = "statVol"
    /\ UNCHANGED <<numDisks, xlKind, xlErr, readQuorum, writeQuorum, dstFiles, healCalls>>

\* The heal routine StatVol starts: create the volume on every disk that
\* returned no volume info.
HealVol ==
    /\ UNCHANGED <<readVars, walkVars, rpcVars, srvVars>>
    /\ UNCHANGED fmtVars
    /\ xpc = "statVol"
    /\ opErr = "nil"
    /\ heal
    /\ healCalls' = {i \in 1..numDisks : diskErrs[i] # "nil"}
    /\ xpc' = "healed"
    /\ UNCHANGED <<numDisks, xlKind, xlErr, readQuorum, writeQuorum, diskErrs, dstFiles,
                   opErr, heal>>

NextXL ==
    \/ DisksFormatted
    \/ NewXLObjects
    \/ Restart
    \/ NewXL
    \/ RenameFile
    \/ MakeVol
    \/ StatVol
    \/ HealVol

SpecXL == InitXL /\ [][NextXL]_vars

----
(* The tree walker: its goroutine and its consumer.                        *)

\* Nothing is read and no engine call is under way.
InitWalk ==
    /\ ReadIdle
    /\ XLIdle
    /\ WalkIdle
    /\ RPCIdle
    /\ SrvIdle

\* Objects are stored in the bucket, and a directory may fail to list.
PutObjects ==
    /\ UNCHANGED <<readVars, xlVars, poolVars, rpcVars, srvVars>>
    /\ tree = {}
    /\ \A w \in Walkers : wpc[w] = "unused"
    /\ tree' \in {t \in SUBSET Keys : Cardinality(t) >= 1 /\ Cardinality(t) <= MaxObjects}
    /\ failDir' \in {NoDir, <<LetterA, slashSeparator>>}
    /\ UNCHANGED <<wpc, wparams, plan, sentN, chanBuf, timedOut, level, received>>

Prefixes ==
    {EmptyString, <<LetterA, Dash>>, <<LetterA, slashSeparator>>}

Markers == {EmptyString} \cup Keys \cup (Dirs \ {EmptyString})

\* startTreeWalk - initiate a new treeWalk in a goroutine.
StartTreeWalk(w, prefix, marker, recursive) ==
    /\ UNCHANGED <<readVars, xlVars, rpcVars, srvVars>>
    /\ wpc[w] = "unused"
    /\ wparams' = [wparams EXCEPT ![w] =
                      [prefix |-> prefix, marker |-> marker, recursive |-> recursive]]
    /\ plan' = [plan EXCEPT ![w] = startTreeWalk(prefix, marker, recursive)]
    /\ wpc' = [wpc EXCEPT ![w] = "walking"]
    /\ level' = [level EXCEPT ![w] = 1]
    /\ UNCHANGED <<tree, failDir, sentN, chanBuf, timedOut, received>>

\* A list call starts the first walker.
StartWalk ==
    /\ UNCHANGED poolVars
    /\ \E prefix \in Prefixes, marker \in Markers, recursive \in BOOLEAN :
          StartTreeWalk(1, prefix, marker, recursive)

\* send, the channel takes the result (lines 327-328); after an error
\* result treeWalk returns false.
Send(w) ==
    /\ UNCHANGED <<readVars, xlVars, poolVars, rpcVars, srvVars>>
    /\ wpc[w] = "walking"
    /\ sentN[w] < Len(plan[w])
    /\ Len(chanBuf[w]) < ChanCap
    /\ LET walkResult == plan[w][sentN[w] + 1]
       IN  /\ chanBuf' = [chanBuf EXCEPT ![w] = Append(@, walkResult)]
           /\ sentN' = [sentN EXCEPT ![w] = @ + 1]
           /\ level' = [level EXCEPT ![w] = walkResult.depth]
           /\ wpc' = [wpc EXCEPT ![w] = IF walkResult.err THEN "returning" ELSE "walking"]
    /\ UNCHANGED <<tree, failDir, wparams, plan, timedOut, received>>

\* Faulty variant: the timer fires, the result is dropped and send reports
\* success.
Timeout_KeepWalking(w) ==
    /\ UNCHANGED <<readVars, xlVars, poolVars, rpcVars, srvVars>>
    /\ wpc[w] = "walking"
    /\ sentN[w] < Len(plan[w])
    /\ Len(chanBuf[w]) = ChanCap
    /\ timedOut' = [timedOut EXCEPT ![w] = TRUE]
    /\ plan' = [plan EXCEPT ![w] =
                    SubSeq(@, 1, sentN[w]) \o SubSeq(@, sentN[w] + 2, Len(@))]
    /\ UNCHANGED <<tree, failDir, wpc, wparams, sentN, chanBuf, level, received>>

\* send, the timer fires while the channel is full (lines 329-331).
Timeout(w) ==
    /\ UNCHANGED <<readVars, xlVars, poolVars, rpcVars, srvVars>>
    /\ wpc[w] = "walking"
    /\ sentN[w] < Len(plan[w])
    /\ Len(chanBuf[w]) = ChanCap
    /\ timedOut' = [timedOut EXCEPT ![w] = TRUE]
    /\ level' = [level EXCEPT ![w] = plan[w][sentN[w] + 1].depth]
    /\ wpc' = [wpc EXCEPT ![w] = "returning"]
    /\ UNCHANGED <<tree, failDir, wparams, plan, sentN, chanBuf, received>>

\* The loops of treeWalk have no entry left.
Finish(w) ==
    /\ UNCHANGED <<readVars, xlVars, poolVars, rpcVars, srvVars>>
    /\ wpc[w] = "walking"
    /\ sentN[w] = Len(plan[w])
    /\ wpc' = [wpc EXCEPT ![w] = "returning"]
    /\ UNCHANGED <<tree, failDir, wparams, plan, sentN, chanBuf, timedOut, level, received>>

\* One level of treeWalk returns to its caller (lines 283-285, 293).
Return(w) ==
    /\ UNCHANGED <<readVars, xlVars, poolVars, rpcVars, srvVars>>
    /\ wpc[w] = "returning"
    /\ level[w] > 0
    /\ level' = [level EXCEPT ![w] = @ - 1]
    /\ UNCHANGED <<tree, failDir, wpc, wparams, plan, sentN, chanBuf, timedOut, received>>

\* The goroutine ends: defer close(ch).
Close(w) ==
    /\ UNCHANGED <<readVars, xlVars, poolVars, rpcVars, srvVars>>
    /\ wpc[w] = "returning"
    /\ level[w] = 0
    /\ wpc' = [wpc EXCEPT ![w] = "closed"]
    /\ UNCHANGED <<tree, failDir, wparams, plan, sentN, chanBuf, timedOut, level, received>>

\* A step of the goroutine of walker w.
WalkerStep(w) == Send(w) \/ Timeout(w) \/ Finish(w) \/ Return(w) \/ Close(w)

\* The consumer takes a result from the channel.
Receive(w) ==
    /\ UNCHANGED <<readVars, xlVars, poolVars, rpcVars, srvVars>>
    /\ Len(chanBuf[w]) > 0
    /\ received' = [received EXCEPT ![w] = Append(@, Head(chanBuf[w]))]
    /\ chanBuf' = [chanBuf EXCEPT ![w] = Tail(@)]
    /\ UNCHANGED <<tree, failDir, wpc, wparams, plan, sentN, timedOut, level>>

NextWalk ==
    \/ PutObjects
    \/ StartWalk
    \/ \E w \in Walkers : Send(w)
    \/ \E w \in Walkers : Timeout(w)
    \/ \E w \in Walkers : Finish(w)
    \/ \E w \in Walkers : Return(w)
    \/ \E w \in Walkers : Close(w)
    \/ \E w \in Walkers : Receive(w)

SpecWalk == InitWalk /\ [][NextWalk]_vars

\* The goroutine of a walker keeps running, and the timer of a blocked send
\* fires.
SpecWalkFair == SpecWalk /\ \A w \in Walkers : WF_vars(WalkerStep(w))

\* Objects are stored in the bucket, and directories without objects are
\* left on the disks.
PutTree ==
    /\ UNCHANGED <<readVars, xlVars, poolVars, rpcVars, srvVars>>
    /\ tree = {}
    /\ \A w \in Walkers : wpc[w] = "unused"
    /\ \E objects \in {t \in SUBSET Keys : Cardinality(t) >= 1 /\ Cardinality(t) <= MaxObjects},
          empty \in SUBSET EmptyDirs :
          tree' = objects \cup empty
    /\ UNCHANGED <<failDir, wpc, wparams, plan, sentN, chanBuf, timedOut, level, received>>

NextEnd ==
    \/ PutTree
    \/ StartWalk
    \/ \E w \in Walkers : Send(w)
    \/ \E w \in Walkers : Timeout(w)
    \/ \E w \in Walkers : Finish(w)
    \/ \E w \in Walkers : Return(w)
    \/ \E w \in Walkers : Close(w)
    \/ \E w \in Walkers : Receive(w)

\* Walks over buckets that hold empty directories.
SpecEnd == InitWalk /\ [][NextEnd]_vars

----
(* The walker pool and the list calls that share it.                       *)

\* The bucket holds its objects; nothing else is under way.
InitPool ==
    /\ ReadIdle
    /\ XLIdle
    /\ tree = PoolTree
    /\ failDir = NoDir
    /\ WalkersIdle
    /\ RPCIdle
    /\ SrvIdle

walkerVars == <<tree, failDir, wpc, wparams, plan, sentN, chanBuf, timedOut, level, received>>

\* A list call for the page after marker begins.
ListObjects(c, marker) ==
    /\ UNCHANGED <<readVars, xlVars, walkerVars, rpcVars, srvVars>>
    /\ cpc[c] = "idle"
    /\ calls < MaxCalls
    /\ calls' = calls + 1
    /\ cmarker' = [cmarker EXCEPT ![c] = marker]
    /\ cwalker' = [cwalker EXCEPT ![c] = 0]
    /\ cresumed' = [cresumed EXCEPT ![c] = FALSE]
    /\ cpc' = [cpc EXCEPT ![c] = "lookupLock"]
    /\ UNCHANGED <<listObjectMap, listObjectMapMutex, cwalkChs>>

\* Faulty variant: the mutex is taken whoever holds it.
CanLock_Always(c) ==
    TRUE

\* xl.listObjectMapMutex.Lock() goes through.
CanLock(c) ==
    listObjectMapMutex = 0

\* lookupTreeWalk, line 352.
LookupLock(c) ==
    /\ UNCHANGED <<readVars, xlVars, walkerVars, rpcVars, srvVars>>
    /\ cpc[c] = "lookupLock"
    /\ CanLock(c)
    /\ listObjectMapMutex' = c
    /\ cpc' = [cpc EXCEPT ![c] = "lookupRead"]
    /\ UNCHANGED <<listObjectMap, cmarker, cwalker, cresumed, cwalkChs, calls>>

\* lookupTreeWalk, line 355: the walkers saved under the params.
LookupRead(c) ==
    /\ UNCHANGED <<readVars, xlVars, walkerVars, rpcVars, srvVars>>
    /\ cpc[c] = "lookupRead"
    /\ cwalkChs' = [cwalkChs EXCEPT ![c] = listObjectMap[cmarker[c]]]
    /\ cpc' = [cpc EXCEPT ![c] = "lookupScan"]
    /\ UNCHANGED <<listObjectMap, listObjectMapMutex, cmarker, cwalker, cresumed, calls>>

\* What a read of walkCh.timedOut may give: the goroutine of the walker
\* writes the flag without holding the mutex, so a read after the write may
\* still give the value before it.
readTimedOut(w) == IF timedOut[w] THEN {TRUE, FALSE} ELSE {FALSE}

\* lookupTreeWalk, lines 356-370: the first walker not seen timed out is
\* returned, it and those before it leave the map.
LookupScan(c) ==
    /\ UNCHANGED <<readVars, xlVars, walkerVars, rpcVars, srvVars>>
    /\ cpc[c] = "lookupScan"
    /\ LET walkChs == cwalkChs[c]
       IN  \E seen \in [DOMAIN walkChs -> BOOLEAN] :
             /\ \A i \in DOMAIN walkChs : seen[i] \in readTimedOut(walkChs[i])
             /\ LET live == {i \in DOMAIN walkChs : ~seen[i]}
                IN  IF live # {}
                    THEN LET i == CHOOSE k \in live : \A o \in live : k <= o
                         IN  /\ listObjectMap' = [listObjectMap EXCEPT ![cmarker[c]] =
                                                     SubSeq(walkChs, i + 1, Len(walkChs))]
                             /\ cwalker' = [cwalker EXCEPT ![c] = walkChs[i]]
                             /\ cresumed' = [cresumed EXCEPT ![c] = TRUE]
                    ELSE /\ listObjectMap' = [listObjectMap EXCEPT ![cmarker[c]] = << >>]
                         /\ UNCHANGED <<cwalker, cresumed>>
    /\ cwalkChs' = [cwalkChs EXCEPT ![c] = << >>]
    /\ cpc' = [cpc EXCEPT ![c] = "lookupUnlock"]
    /\ UNCHANGED <<listObjectMapMutex, cmarker, calls>>

\* lookupTreeWalk returns: the deferred Unlock.
LookupUnlock(c) ==
    /\ UNCHANGED <<readVars, xlVars, walkerVars, rpcVars, srvVars>>
    /\ cpc[c] = "lookupUnlock"
    /\ listObjectMapMutex' = 0
    /\ cpc' = [cpc EXCEPT ![c] = IF cwalker[c] = 0 THEN "start" ELSE "receive"]
    /\ UNCHANGED <<listObjectMap, cmarker, cwalker, cresumed, cwalkChs, calls>>

\* No walker was found: the list call starts one at its marker.
StartNew(c) ==
    /\ cpc[c] = "start"
    /\ \E w \in Walkers :
         /\ \A o \in Walkers : wpc[o] = "unused" => w <= o
         /\ StartTreeWalk(w, EmptyString, cmarker[c], TRUE)
         /\ cwalker' = [cwalker EXCEPT ![c] = w]
    /\ cpc' = [cpc EXCEPT ![c] = "receive"]
    /\ UNCHANGED <<listObjectMap, listObjectMapMutex, cmarker, cresumed, cwalkChs, calls>>

\* The list call takes the one result of its page from the channel of its
\* walker; it ends at the last result and on a closed channel, and keeps
\* the walker for the next page otherwise.
ListReceive(c) ==
    /\ UNCHANGED <<readVars, xlVars, rpcVars, srvVars>>
    /\ cpc[c] = "receive"
    /\ LET w == cwalker[c]
       IN  IF Len(chanBuf[w]) > 0
           THEN LET walkResult == Head(chanBuf[w])
                IN  /\ received' = [received EXCEPT ![w] = Append(@, walkResult)]
                    /\ chanBuf' = [chanBuf EXCEPT ![w] = Tail(@)]
                    /\ IF walkResult.err \/ walkResult.end
                       THEN /\ cpc' = [cpc EXCEPT ![c] = "idle"]
                            /\ cwalker' = [cwalker EXCEPT ![c] = 0]
                            /\ cmarker' = [cmarker EXCEPT ![c] = EmptyString]
                            /\ cresumed' = [cresumed EXCEPT ![c] = FALSE]
                       ELSE /\ cpc' = [cpc EXCEPT ![c] = "saveLock"]
                            /\ cmarker' = [cmarker EXCEPT ![c] = walkResult.entry]
                            /\ UNCHANGED <<cwalker, cresumed>>
           ELSE /\ wpc[w] = "closed"
                /\ cpc' = [cpc EXCEPT ![c] = "idle"]
                /\ cwalker' = [cwalker EXCEPT ![c] = 0]
                /\ cmarker' = [cmarker EXCEPT ![c] = EmptyString]
                /\ cresumed' = [cresumed EXCEPT ![c] = FALSE]
                /\ UNCHANGED <<received, chanBuf>>
    /\ UNCHANGED <<tree, failDir, wpc, wparams, plan, sentN, timedOut, level,
                   listObjectMap, listObjectMapMutex, cwalkChs, calls>>

\* saveTreeWalk, line 341.
SaveLock(c) ==
    /\ UNCHANGED <<readVars, xlVars, walkerVars, rpcVars, srvVars>>
    /\ cpc[c] = "saveLock"
    /\ CanLock(c)
    /\ listObjectMapMutex' = c
    /\ cpc' = [cpc EXCEPT ![c] = "saveAppend"]
    /\ UNCHANGED <<listObjectMap, cmarker, cwalker, cresumed, cwalkChs, calls>>

\* saveTreeWalk, lines 344-347: the walker is appended under the params.
SaveAppend(c) ==
    /\ UNCHANGED <<readVars, xlVars, walkerVars, rpcVars, srvVars>>
    /\ cpc[c] = "saveAppend"
    /\ listObjectMap' = [listObjectMap EXCEPT ![cmarker[c]] = Append(@, cwalker[c])]
    /\ cwalker' = [cwalker EXCEPT ![c] = 0]
    /\ cpc' = [cpc EXCEPT ![c] = "saveUnlock"]
    /\ UNCHANGED <<listObjectMapMutex, cmarker, cresumed, cwalkChs, calls>>

\* saveTreeWalk returns: the deferred Unlock; the list call is over.
SaveUnlock(c) ==
    /\ UNCHANGED <<readVars, xlVars, walkerVars, rpcVars, srvVars>>
    /\ cpc[c] = "saveUnlock"
    /\ listObjectMapMutex' = 0
    /\ cpc' = [cpc EXCEPT ![c] = "idle"]
    /\ cmarker' = [cmarker EXCEPT ![c] = EmptyString]
    /\ cresumed' = [cresumed EXCEPT ![c] = FALSE]
    /\ UNCHANGED <<listObjectMap, cwalker, cwalkChs, calls>>

NextPool ==
    \/ \E c \in Callers, marker \in CallMarkers : ListObjects(c, marker)
    \/ \E c \in Callers : LookupLock(c)
    \/ \E c \in Callers : LookupRead(c)
    \/ \E c \in Callers : LookupScan(c)
    \/ \E c \in Callers : LookupUnlock(c)
    \/ \E c \in Callers : StartNew(c)
    \/ \E c \in Callers : ListReceive(c)
    \/ \E c \in Callers : SaveLock(c)
    \/ \E c \in Callers : SaveAppend(c)
    \/ \E c \in Callers : SaveUnlock(c)
    \/ \E w \in Walkers : Send(w)
    \/ \E w \in Walkers : Timeout(w)
    \/ \E w \in Walkers : Finish(w)
    \/ \E w \in Walkers : Return(w)
    \/ \E w \in Walkers : Close(w)

SpecPool == InitPool /\ [][NextPool]_vars

----
(* The authenticated RPC client: AuthRPCClient over a reconnecting client. *)

\* A client was built with newAuthClient.
InitRPC ==
    /\ ReadIdle
    /\ XLIdle
    /\ WalkIdle
    /\ RPCIdle
    /\ SrvIdle

\* What an RPC on the connection can return.
RPCErrors == {"nil", "ErrShutdown", "errOther"}

LoginRPC(loggedIn) ==
    [method |-> "Login", token |-> 0, tstamp |-> 0, loggedIn |-> loggedIn]

ServiceRPC(tok, ts, loggedIn) ==
    [method |-> "Service", token |-> tok, tstamp |-> ts, loggedIn |-> loggedIn]

\* Faulty variant: the token survives the closing of the connection.
AuthClose_KeepSession ==
    /\ UNCHANGED <<readVars, xlVars, walkVars, srvVars>>
    /\ rpcpc = "idle"
    /\ lastEvent # "closed"
    /\ lastEvent' = "closed"
    /\ UNCHANGED <<isLoggedIn, token, tstamp, rpcpc, callErr, loginInCall, issued, rpcLog>>

\* Close - closes underlying rpc connection (and resets the token).
AuthClose ==
    /\ UNCHANGED <<readVars, xlVars, walkVars, srvVars>>
    /\ rpcpc = "idle"
    /\ lastEvent # "closed"
    /\ isLoggedIn' = FALSE
    /\ lastEvent' = "closed"
    /\ UNCHANGED <<token, tstamp, rpcpc, callErr, loginInCall, issued, rpcLog>>

\* Faulty variant: every failed call marks the session for a new login.
invalidates_AnyError(e) ==
    e # "nil"

\* Call, line 86: the errors after which the token is invalidated.
invalidates(e) ==
    e # "nil" /\ e = "ErrShutdown"

\* Call, line 78: Login. It returns at once when the client is logged in;
\* otherwise the login RPC is sent and the server answers with a new token
\* and its time, or the RPC fails and Call returns that error.
CallLogin ==
    /\ UNCHANGED <<readVars, xlVars, walkVars, srvVars>>
    /\ rpcpc = "idle"
    /\ Len(rpcLog) < MaxRPCs
    /\ IF isLoggedIn
       THEN /\ rpcpc' = "loggedIn"
            /\ loginInCall' = FALSE
            /\ callErr' = "none"
            /\ UNCHANGED <<isLoggedIn, token, tstamp, issued, rpcLog, lastEvent>>
       ELSE /\ rpcLog' = Append(rpcLog, LoginRPC(isLoggedIn))
            /\ loginInCall' = TRUE
            /\ \E e \in RPCErrors :
                  IF e = "nil"
                  THEN /\ \E dt \in 1..2 :
                            issued' = [token |-> issued.token + 1, tstamp |-> issued.tstamp + dt]
                       /\ token' = issued'.token
                       /\ tstamp' = issued'.tstamp
                       /\ isLoggedIn' = TRUE
                       /\ rpcpc' = "loggedIn"
                       /\ callErr' = "none"
                       /\ UNCHANGED lastEvent
                  ELSE /\ callErr' = e
                       /\ lastEvent' = "loginFailed"
                       /\ UNCHANGED <<isLoggedIn, token, tstamp, issued, rpcpc>>

\* Call, lines 80-90: the token and the timestamp are set on the arguments,
\* the service method is called and ErrShutdown invalidates the token.
CallService ==
    /\ UNCHANGED <<readVars, xlVars, walkVars, srvVars>>
    /\ rpcpc = "loggedIn"
    /\ rpcLog' = Append(rpcLog, ServiceRPC(token, tstamp, isLoggedIn))
    /\ \E e \in RPCErrors :
          /\ callErr' = e
          /\ isLoggedIn' = IF invalidates(e) THEN FALSE ELSE isLoggedIn
          /\ lastEvent' = CASE e = "nil" -> "ok"
                             [] e = "ErrShutdown" -> "shutdown"
                             [] OTHER -> "failed"
    /\ rpcpc' = "idle"
    /\ UNCHANGED <<token, tstamp, loginInCall, issued>>

NextRPC ==
    \/ AuthClose
    \/ CallLogin
    \/ CallService

SpecRPC == InitRPC /\ [][NextRPC]_vars

----
(* The object layer factory: the function newObjectLayerFactory returns,   *)
(* called by several goroutines.                                           *)

InitFac ==
    /\ ReadIdle
    /\ XLIdle
    /\ WalkIdle
    /\ RPCIdle
    /\ SrvIdle

otherVars == <<readVars, xlVars, walkVars, rpcVars, iamVars>>

\* Lines 50-52: the caller finds objAPI set. The variable is read without
\* any synchronization.
seesLayer(c) ==
    objAPI # 0

\* A goroutine calls the function and looks at objAPI (lines 49-50).
FacCheck(c) ==
    /\ UNCHANGED otherVars
    /\ fpc[c] = "idle"
    /\ fcalls < MaxFacCalls
    /\ fcalls' = fcalls + 1
    /\ fpc' = [fpc EXCEPT ![c] = IF seesLayer(c) THEN "return" ELSE "lock"]
    /\ UNCHANGED <<objAPI, nsLock, layers, stepsRun, reinit, obtained>>

\* return objAPI (line 51): the variable is read once more.
FacReturn(c) ==
    /\ UNCHANGED otherVars
    /\ fpc[c] = "return"
    /\ obtained' = obtained \cup ({objAPI} \ {0})
    /\ fpc' = [fpc EXCEPT ![c] = "idle"]
    /\ UNCHANGED <<objAPI, nsLock, layers, stepsRun, reinit, fcalls>>

\* nsMutex.Lock (line 56).
FacLock(c) ==
    /\ UNCHANGED otherVars
    /\ fpc[c] = "lock"
    /\ nsLock = 0
    /\ nsLock' = c
    /\ fpc' = [fpc EXCEPT ![c] = "new"]
    /\ UNCHANGED <<objAPI, layers, stepsRun, reinit, obtained, fcalls>>

\* objAPI, err = newObjectLayer(disks, ignoredDisks) (lines 58-61): a new
\* object layer, or nil and an error.
FacNew(c) ==
    /\ UNCHANGED otherVars
    /\ fpc[c] = "new"
    /\ reinit' = (reinit \/ layers > 0)
    /\ \E ok \in BOOLEAN :
          IF ok
          THEN /\ layers' = layers + 1
               /\ objAPI' = layers'
               /\ fpc' = [fpc EXCEPT ![c] = "steps"]
          ELSE /\ layers' = layers
               /\ objAPI' = 0
               /\ fpc' = [fpc EXCEPT ![c] = "unlock"]
    /\ UNCHANGED <<nsLock, stepsRun, obtained, fcalls>>

\* Lines 62-84: the bucket policies are migrated, the shutdown callback is
\* registered, the event notifier and the bucket policies are initialized,
\* and objAPI is returned.
FacSteps(c) ==
    /\ UNCHANGED otherVars
    /\ fpc[c] = "steps"
    /\ stepsRun' = stepsRun + 1
    /\ obtained' = obtained \cup {objAPI}
    /\ fpc' = [fpc EXCEPT ![c] = "unlock"]
    /\ UNCHANGED <<objAPI, nsLock, layers, reinit, fcalls>>

\* defer nsMutex.Unlock (line 57): the call returns.
FacUnlock(c) ==
    /\ UNCHANGED otherVars
    /\ fpc[c] = "unlock"
    /\ nsLock' = 0
    /\ fpc' = [fpc EXCEPT ![c] = "idle"]
    /\ UNCHANGED <<objAPI, layers, stepsRun, reinit, obtained, fcalls>>

NextFac ==
    \/ \E c \in FacCallers : FacCheck(c)
    \/ \E c \in FacCallers : FacReturn(c)
    \/ \E c \in FacCallers : FacLock(c)
    \/ \E c \in FacCallers : FacNew(c)
    \/ \E c \in FacCallers : FacSteps(c)
    \/ \E c \in FacCallers : FacUnlock(c)

SpecFac == InitFac /\ [][NextFac]_vars

----
(* Properties of the engine.                                               *)

SupportedDisks == numDisks % 2 = 0 /\ numDisks >= 6 /\ numDisks <= 16

\* C8: every engine over an even number N of disks in 6..16, whichever
\* constructor built it, has readQuorum = writeQuorum = N/2+1.
C8_QuorumValues ==
    (xpc \in {"constructed", "called"} /\ SupportedDisks)
        => (readQuorum = numDisks \div 2 + 1 /\ writeQuorum = numDisks \div 2 + 1)

\* C9: checkSufficientDisks accepts a list iff its length is even and within
\* 6..16; it answers errXLMaxDisks above 16 and errXLMinDisks below 6, odd or
\* even, and errXLNumDisks exactly for the odd lengths within 6..16.
C9_DiskCount ==
    (xlKind = "xlObjects" \/ (xpc = "failed" /\ xlErr # "ErrInvShardNum"))
        => /\ (xlKind = "xlObjects" \/ xlErr = "errFormat") <=> SupportedDisks
           /\ xlErr = "errXLMaxDisks" <=> numDisks > 16
           /\ xlErr = "errXLMinDisks" <=> numDisks < 6
           /\ xlErr = "errXLNumDisks" <=> (numDisks % 2 = 1 /\ numDisks >= 6 /\ numDisks <= 16)

C9_Witness ==
    /\ xpc = "failed"
    /\ xlErr = "errXLMaxDisks"
    /\ numDisks % 2 = 1

Acknowledged == Cardinality({i \in DOMAIN diskErrs : diskErrs[i] = "nil"})

\* C10: RenameFile returns success iff at least N/2+1 disks performed the
\* rename, and the write-quorum error for every other vector of answers.
C10_CommitQuorum ==
    (xpc = "called" /\ opErr # "errInvalidArgument")
        => /\ opErr = "nil" <=> Acknowledged >= numDisks \div 2 + 1
           /\ opErr # "nil" => opErr = "errWriteQuorum"

\* C11: when the renames of a RenameFile call do not reach the write quorum,
\* the call returns an error and no disk is left holding the destination
\* files: they are removed wherever the rename had succeeded.
C11_CleanupOnFailedCommit ==
    (xpc = "called" /\ opErr # "errInvalidArgument" /\ Acknowledged < writeQuorum)
        => /\ opErr # "nil"
           /\ \A i \in 1..numDisks : ~dstFiles[i]

\* C19: a MakeVol call returns success only if at least writeQuorum disks
\* acknowledged the creation; a nil disk and a disk that answered an error
\* are not acknowledgments, and with fewer acknowledgments the call returns
\* errVolumeExists or errWriteQuorum.
C19_MakeVolQuorum ==
    (xpc = "madeVol" /\ opErr # "errInvalidArgument")
        => /\ opErr = "nil" => Acknowledged >= writeQuorum
           /\ Acknowledged < writeQuorum => opErr \in {"errVolumeExists", "errWriteQuorum"}

NotFound == Cardinality({i \in DOMAIN diskErrs : diskErrs[i] = "errVolumeNotFound"})

StatVolReturned == xpc \in {"statVol", "healed"} /\ opErr # "errInvalidArgument"

\* C20: listAllVolInfo answers Ok without heal iff all N disks succeeded,
\* Ok with heal iff at least readQuorum but fewer than N succeeded, and fails
\* otherwise: with errVolumeNotFound when more than N - readQuorum disks
\* returned volume-not-found, with errReadQuorum otherwise.  Heal is triggered
\* only when the read quorum holds.
C20_VolInfoVerdict ==
    StatVolReturned
        => /\ (opErr = "nil" /\ ~heal) <=> Acknowledged = numDisks
           /\ (opErr = "nil" /\ heal)
                  <=> (Acknowledged >= readQuorum /\ Acknowledged < numDisks)
           /\ opErr = "errVolumeNotFound" <=> NotFound > numDisks - readQuorum
           /\ opErr = "errReadQuorum"
                  <=> (Acknowledged < readQuorum /\ NotFound <= numDisks - readQuorum)
           /\ (heal \/ healCalls # {}) => (opErr = "nil" /\ Acknowledged >= readQuorum)

C20_Witness ==
    /\ xpc = "healed"
    /\ numDisks = 6
    /\ Acknowledged = readQuorum
    /\ NotFound = 2
    /\ healCalls # {}

\* Every disk carries a format and the formats agree: the slots they name
\* are a permutation of the disks.
FullyFormatted(f) ==
    /\ Formatted(f) = DOMAIN f
    /\ \A i, j \in DOMAIN f : i # j => f[i] # f[j]

Bootstrapped == xpc \in {"new", "formatted"} /\ xpc' = "constructed" /\ xlKind' = "xlObjects"

\* C17: constructing an engine over fully formatted, agreeing disks writes
\* no format document (neither the initialisation nor the heal of formats
\* runs) and computes the disk order the formats name; a second construction
\* over the same disks leaves the formats and the disk order unchanged.
C17_FormatIdempotence ==
    [][ /\ (Bootstrapped /\ FullyFormatted(formats))
            => /\ formats' = formats
               /\ formatWrites' = {}
               /\ \A i \in 1..numDisks : diskOrder'[formats[i]] = i
        /\ (Bootstrapped /\ boots >= 1)
            => /\ formats' = formats
               /\ formatWrites' = {}
               /\ diskOrder' = diskOrder
      ]_vars

C17_Witness ==
    /\ xpc = "constructed"
    /\ xlKind = "xlObjects"
    /\ boots = 2
    /\ FullyFormatted(formats)
    /\ formats[1] # 1
    /\ formatWrites = {}

\* C18: erasureReadFile processes the blocks in increasing index, one after
\* the other: the block number changes only in the step that wrote the
\* current block's bytes to the writer, so no read of block b+1 starts before
\* block b is written, and bytesWritten never decreases.
C18_OutputOrdering ==
    [][ Reading
          => /\ block' >= block
             /\ bytesWritten' >= bytesWritten
             /\ block' # block
                  => /\ block' = block + 1
                     /\ pc = "write"
                     /\ Len(writer') > Len(writer)
                     /\ bytesWritten' > bytesWritten
             /\ enBlocks' # enBlocks /\ pc \in {"parallelRead", "decode"}
                  => block' = block /\ writer' = writer
      ]_vars

C18_Witness ==
    /\ pc = "parallelRead"
    /\ block = startBlock + 1
    /\ bytesWritten > 0
    /\ bytesWritten < length
    /\ ~AllHealthy

----
(* Properties of the tree walker.                                          *)

\* Everything walker w has sent on its channel so far, in the order sent.
Sent(w) == received[w] \o chanBuf[w]

\* The keys among a sequence of results.
EntriesOf(results) ==
    LET keep == {i \in DOMAIN results : ~results[i].err}
    IN  [i \in 1..Cardinality(keep) |->
            results[CHOOSE k \in keep : Cardinality({o \in keep : o < k}) = i - 1].entry]

\* C12: for every tree, prefix, marker and mode, the entries a walker sends
\* on its channel are strictly increasing in the byte-wise lexicographic
\* order of the full key; no key is sent twice.
C12_ListingOrder ==
    \A w \in Walkers :
        LET keys == EntriesOf(Sent(w))
        IN  \A i, j \in DOMAIN keys : i < j => Less(keys[i], keys[j])

C12_Witness ==
    /\ wpc[1] = "closed"
    /\ wparams[1].recursive
    /\ wparams[1].marker # EmptyString
    /\ Len(received[1]) = 2
    /\ ~received[1][1].err /\ ~received[1][2].err
    /\ received[1][1].depth = 1
    /\ received[1][2].depth = 2

\* The entries of a sequence of keys that are strictly greater than marker.
GreaterThan(keys, marker) ==
    LET keep == {i \in DOMAIN keys : Less(marker, keys[i])}
    IN  [i \in 1..Cardinality(keep) |->
            keys[CHOOSE k \in keep : Cardinality({o \in keep : o < k}) = i - 1]]

\* Walker w went through its whole walk and the consumer has all of it.
Completed(w) == wpc[w] = "closed" /\ ~timedOut[w] /\ chanBuf[w] = << >>

MarkerLess(w) ==
    EntriesOf(startTreeWalk(wparams[w].prefix, EmptyString, wparams[w].recursive))

MarkerUnderPrefix(w) ==
    /\ wpc[w] # "unused"
    /\ HasPrefix(wparams[w].marker, wparams[w].prefix)
    /\ failDir = NoDir

Blocked(w) ==
    wpc[w] = "walking" /\ sentN[w] < Len(plan[w]) /\ Len(chanBuf[w]) = ChanCap

\* C15: when the consumer stops receiving, the blocked send of a walker
\* times out; a walker that timed out sends nothing more, returns from every
\* level of treeWalk and closes its channel; every walker goroutine
\* terminates.
C15_WalkerTermination ==
    /\ \A w \in Walkers : wpc[w] = "walking" ~> wpc[w] = "closed"
    /\ \A w \in Walkers : Blocked(w) ~> (timedOut[w] \/ Len(chanBuf[w]) < ChanCap)
    /\ [][\A w \in Walkers : timedOut[w] => sentN'[w] = sentN[w]]_vars
    /\ [][\A w \in Walkers : wpc'[w] = "closed" => level[w] = 0]_vars
    /\ [](\A w \in Walkers : timedOut[w] => wpc[w] \in {"returning", "closed"})

C15_Witness ==
    /\ wpc[1] = "closed"
    /\ timedOut[1]
    /\ sentN[1] < Len(plan[1])
    /\ plan[1][sentN[1] + 1].depth = 2
    /\ level[1] = 0

----
(* Properties of the walker pool.                                          *)

\* C14: lookupTreeWalk never hands a walker that has marked itself timed
\* out to a list call, and a list call that resumed a walker never receives
\* from it while it is timed out.
C14_NeverResumed ==
    [][\A c \in Callers :
          /\ (cpc[c] = "lookupScan" /\ cwalker'[c] # 0) => ~timedOut[cwalker'[c]]
          /\ (cpc[c] = "receive" /\ cresumed[c] /\ cpc'[c] # "receive")
                => ~timedOut[cwalker[c]]
      ]_vars

InPool(w) == \E m \in PoolMarkers : \E i \in DOMAIN listObjectMap[m] : listObjectMap[m][i] = w

CriticalSection == {"lookupRead", "lookupScan", "lookupUnlock", "saveAppend", "saveUnlock"}

\* C16: lookups and insertions of the pool exclude one another; a walker is
\* held by at most one list call, a walker a lookup returned is no longer in
\* the pool, and no walker is in the pool twice.
C16_PoolExclusivity ==
    /\ Cardinality({c \in Callers : cpc[c] \in CriticalSection}) <= 1
    /\ \A c1, c2 \in Callers : (c1 # c2 /\ cwalker[c1] # 0) => cwalker[c1] # cwalker[c2]
    /\ \A c \in Callers : cwalker[c] # 0 => ~InPool(cwalker[c])
    /\ \A w \in Walkers :
          Cardinality({<<m, i>> \in PoolMarkers \X (1..MaxCalls) :
                          i \in DOMAIN listObjectMap[m] /\ listObjectMap[m][i] = w}) <= 1

C16_Witness ==
    /\ cpc[1] = "receive"
    /\ cpc[2] = "receive"
    /\ cmarker[1] = cmarker[2]
    /\ cmarker[1] # EmptyString
    /\ cresumed[1]
    /\ ~cresumed[2]
    /\ cwalker[1] # cwalker[2]

----
(* Properties of the authenticated RPC client.                             *)

\* The step sends an RPC of the given method.
Sends(method) ==
    /\ Len(rpcLog') = Len(rpcLog) + 1
    /\ rpcLog'[Len(rpcLog')].method = method

SentRPC == rpcLog'[Len(rpcLog')]

\* The step is a Login RPC that failed: the server issued no token.
LoginFails == Sends("Login") /\ issued' = issued

\* C21: a service RPC is sent only while the client is logged in, with the
\* token and timestamp of the most recent successful Login; a failed Login
\* ends the Call with the login error and no service RPC; after ErrShutdown
\* or Close the next Call logs in afresh before the service RPC; any other
\* call error leaves the session logged in.
C21_AuthSession ==
    [][/\ Sends("Service") =>
            /\ isLoggedIn /\ SentRPC.loggedIn
            /\ issued.token > 0
            /\ SentRPC.token = issued.token /\ SentRPC.tstamp = issued.tstamp
            /\ lastEvent \in {"closed", "shutdown"} =>
                    /\ loginInCall
                    /\ rpcLog[Len(rpcLog)].method = "Login"
       /\ LoginFails =>
            /\ rpcpc' = "idle"
            /\ callErr' \in RPCErrors \ {"nil"}
            /\ ~isLoggedIn'
       /\ (Sends("Service") /\ callErr' = "ErrShutdown") => ~isLoggedIn'
       /\ (Sends("Service") /\ callErr' \in {"nil", "errOther"}) => isLoggedIn'
       /\ (rpcpc = "idle" /\ lastEvent' = "closed" /\ lastEvent # "closed") => ~isLoggedIn'
      ]_vars

\* A call after a shutdown logged in again and used the second token, after
\* a call that failed otherwise had kept the first one.
C21_Witness ==
    /\ Len(rpcLog) = 4
    /\ rpcLog[1].method = "Login" /\ rpcLog[2].method = "Service"
    /\ rpcLog[3].method = "Login" /\ rpcLog[4].method = "Service"
    /\ rpcLog[2].token = 1 /\ rpcLog[4].token = 2
    /\ rpcLog[4].tstamp = 4
    /\ callErr = "errOther" /\ isLoggedIn

----
(* Properties of the batches of one read.                                  *)

DataShards == 0..(DataBlocks - 1)

\* The parallel reads made for block b, in order.
BatchesOf(b) == SelectSeq(readLog, LAMBDA e : e.block = b)

\* The blocks a parallel read was made for.
BlocksRead == {readLog[k].block : k \in DOMAIN readLog}

\* C22: when the disks of all data shards are available, pass verification
\* and are read without error, every block is read in one batch from exactly
\* the data-shard disks: no parity disk is read and nothing is reconstructed.
C22_FastPath ==
    (Reading /\ DataDisksHealthy)
        => /\ \A k \in DOMAIN readLog : readLog[k].disks = DataShards
           /\ \A b \in BlocksRead : Len(BatchesOf(b)) = 1
           /\ ~reconstructed
           /\ pc # "decode"

C22_Witness ==
    /\ Success
    /\ DataDisksHealthy
    /\ \E d \in PhysicalDisks : disks[d] = "rotten"
    /\ \E d \in PhysicalDisks : disks[d] = "offline"
    /\ Cardinality(BlocksRead) = 2

\* The disks selected for the batch about to be read, and those read before
\* it for the same block.
Selected == {i \in Shards : readDisks[i] # NilDisk}

ReadBefore == UNION {readLog[k].disks : k \in {j \in DOMAIN readLog : readLog[j].block = block}}

Intact == PresentCount(enBlocks)

\* A batch that follows a batch of the same block is about to be read.
Expanding == pc = "parallelRead" /\ ReadBefore # {}

Available(from) == {i \in Shards : i >= from /\ orderedDisks[i] # NilDisk}

\* C23 as stated: every following batch adds exactly one more disk.
C23_Original ==
    Expanding => Cardinality(Selected) = 1

\* C23 amended: a following batch consists of the next available disks in
\* shard order, as many as are missing to dataBlocks+1 intact shards; the
\* expansion stops as soon as dataBlocks+1 shards are intact, and the read
\* fails with the read-quorum error when the available disks that are left
\* cannot bring the intact shards to dataBlocks+1.
C23_BatchExpansion ==
    /\ Expanding =>
          /\ Cardinality(Selected) = DataBlocks + 1 - Intact
          /\ \A i \in Selected : \A j \in ReadBefore : i > j
          /\ \A i \in Selected : \A j \in Shards :
                (j < i /\ orderedDisks[j] # NilDisk) => (j \in Selected \/ j \in ReadBefore)
    /\ (Len(BatchesOf(block)) > 1 /\ pc = "write") => reconstructed
    /\ (pc = "decode" /\ Len(BatchesOf(block)) > 1) => Intact = DataBlocks + 1
    /\ (Done /\ err = "errXLReadQuorum") =>
          /\ Intact < DataBlocks + 1
          /\ Intact + Cardinality(Available(nextIndex)) < DataBlocks + 1

\* A second batch of two disks after a data disk failed in the first, and a
\* third of one.
C23_Witness ==
    /\ pc = "decode"
    /\ Len(BatchesOf(block)) = 3
    /\ Cardinality(BatchesOf(block)[1].disks) = DataBlocks
    /\ Cardinality(BatchesOf(block)[2].disks) = 2
    /\ Cardinality(BatchesOf(block)[3].disks) = 1

\* The disks whose verification or chunk read failed so far in this read.
Dead == UNION {readLog[k].failed : k \in DOMAIN readLog}

\* C24: a disk that failed its verification or a chunk read is marked dead
\* and is in no later batch of the read, neither for the same block nor for
\* a later one; the batch selected next never holds a dead disk.
C24_DeadDisks ==
    /\ \A k, l \in DOMAIN readLog : k < l => readLog[k].failed \cap readLog[l].disks = {}
    /\ Reading => \A i \in Dead : orderedDisks[i] = NilDisk
    /\ pc = "parallelRead" => Selected \cap Dead = {}

\* Disks failed in the first block, in two batches, and the second block was
\* read from the disks that were left.
C24_Witness ==
    /\ Success
    /\ Cardinality(BlocksRead) = 2
    /\ Len(readLog) = 4
    /\ readLog[1].failed # {} /\ readLog[2].failed # {}
    /\ readLog[4].block = readLog[1].block + 1
    /\ \E i \in readLog[4].disks : i >= DataBlocks

\* The parallel reads in which the checksum of the shard file on disk i was
\* computed, and those in which the disk was read.
HashedIn(i) == {k \in DOMAIN readLog : i \in readLog[k].hashed}

ReadIn(i) == {k \in DOMAIN readLog : i \in readLog[k].disks}

\* C25: within one read the checksum of each shard file is computed at most
\* once, in the first batch the disk is part of; a disk that passed is read
\* again for later blocks without another computation, and a disk that did
\* not pass is never verified again.
C25_OneShotVerification ==
    \A i \in Shards :
        /\ Cardinality(HashedIn(i)) <= 1
        /\ \A k \in HashedIn(i) : \A l \in ReadIn(i) : k <= l
        /\ ReadIn(i) # {} => HashedIn(i) # {}
        /\ (pc # "parallelRead" /\ verified[i]) => HashedIn(i) # {}

\* Two blocks were read from a disk hashed once, and a rotten disk was
\* hashed once and left alone.
C25_Witness ==
    /\ Success
    /\ Cardinality(BlocksRead) = 2
    /\ \E i \in Shards : Cardinality(ReadIn(i)) = 2 /\ Cardinality(HashedIn(i)) = 1
    /\ \E i \in Shards : /\ i \in readLog[1].failed
                         /\ Cardinality(ReadIn(i)) = 1
                         /\ Cardinality(HashedIn(i)) = 1
    /\ \E d \in PhysicalDisks : disks[d] = "rotten"

----
(* Properties of reconstruction.                                           *)

\* The shards of block b that a parallel read obtained.
ReadOK(b) ==
    UNION {readLog[k].disks \ readLog[k].failed :
              k \in {j \in DOMAIN readLog : readLog[j].block = b}}

\* decodeData is about to find the reconstructed stripe inconsistent.
VerifyFails == pc = "decode" /\ PresentCount(enBlocks) >= DataBlocks
                             /\ ~Verify(Reconstruct(enBlocks))

\* C26: decodeData is called for a block iff a data shard is missing after
\* its reads; when the verification after the reconstruction fails the read
\* ends at once with an error, the writer is not touched, and the bytes
\* reported are the bytes the earlier blocks delivered.
C26_ReconstructVerify ==
    [][/\ (pc = "parallelRead" /\ pc' \in {"decode", "write"})
            => (pc' = "decode" <=> \E j \in DataShards : j \notin ReadOK(block)')
       /\ pc' = "write" => (reconstructed' <=> \E j \in DataShards : j \notin ReadOK(block)')
       /\ VerifyFails =>
            /\ pc' = "done"
            /\ err' \notin {"nil", "none"}
            /\ writer' = writer
            /\ bytesWritten' = bytesWritten
            /\ bytesWritten' = Len(writer')
      ]_vars

\* The second block failed its verification after the first was delivered.
C26_Witness ==
    /\ Done
    /\ err = "errVerification"
    /\ reconstructed
    /\ block = startBlock + 1
    /\ bytesWritten > 0
    /\ bytesWritten = Len(writer)

----
(* Properties of the block geometry.                                       *)

\* C27: the slice asked of a decoded block lies within the payload of that
\* block: outOffset + outSize is at most the block's unpadded length.
C27_SliceBounds ==
    pc = "write" =>
        /\ outOffsetOf(block) = (IF block = offset \div BlockSize THEN offset % BlockSize ELSE 0)
        /\ outOffsetOf(block) + outSizeOf(block, bytesWritten) <= BlockLen(block)

\* n is the least number of bytes per shard that holds len bytes in
\* DataBlocks shards.
IsCeilDiv(n, len) == DataBlocks * n >= len /\ len > DataBlocks * (n - 1)

\* C28: every parallel read of block b reads, from each shard file, the
\* chunk at offset b * ceil(B/D) of length ceil(L_b/D), where L_b is the
\* payload of the block: B, or T mod B for a short final block.
C28_ChunkGeometry ==
    \A k \in DOMAIN readLog :
        LET e == readLog[k]
            Lb == IF e.block = NumBlocks - 1 /\ totalLength % BlockSize # 0
                  THEN totalLength % BlockSize ELSE BlockSize
        IN  /\ e.block < NumBlocks
            /\ IsCeilDiv(e.size, Lb)
            /\ \E c \in 1..BlockSize : IsCeilDiv(c, BlockSize) /\ e.offset = e.block * c

\* A short final block was read at the offset of a full chunk.
C28_Witness ==
    /\ Success
    /\ \E k \in DOMAIN readLog :
          /\ readLog[k].block = 1
          /\ readLog[k].size < chunkSize
          /\ readLog[k].offset = chunkSize
          /\ readLog[k].offset # readLog[k].block * readLog[k].size

----
(* getOrderedDisks over every distribution.                                *)

\* The distributions an erasureInfo can carry: the permutations of 1..N.
AllDistributions ==
    {f \in [1..N -> 1..N] : \A i, j \in 1..N : i # j => f[i] # f[j]}

\* The disks handed to erasureReadFile: nil where the disk is offline.
InDisks == [d \in PhysicalDisks |-> IF disks[d] = "offline" THEN NilDisk ELSE d]

InitOrder ==
    /\ ReadIdle
    /\ XLIdle
    /\ WalkIdle
    /\ RPCIdle
    /\ SrvIdle

\* An object's metadata was read: its distribution, one checksum per disk,
\* and at most one disk is offline.
PickDistribution ==
    /\ UNCHANGED <<xlVars, walkVars, rpcVars, srvVars>>
    /\ pc = "idle"
    /\ distribution' \in AllDistributions
    /\ \E off \in {S \in SUBSET PhysicalDisks : Cardinality(S) <= 1} :
          disks' = [d \in PhysicalDisks |-> IF d \in off THEN "offline" ELSE "ok"]
    /\ blockCheckSums' = [d \in PhysicalDisks |-> 100 + d]
    /\ pc' = "picked"
    /\ UNCHANGED <<files, BlockSize, totalLength, offset, length, readLocals>>

\* erasureReadFile, line 186.
OrderDisks ==
    /\ UNCHANGED <<xlVars, walkVars, rpcVars, srvVars>>
    /\ pc = "picked"
    /\ orderedDisks' = getOrderedDisks(distribution, InDisks)
    /\ pc' = "ordered"
    /\ UNCHANGED <<inputVars, verified, enBlocks, readDisks, nextIndex, block,
                   bytesWritten, writer, err, readLog, reconstructed, taskVars>>

NextOrder ==
    \/ PickDistribution
    \/ OrderDisks

SpecOrder == InitOrder /\ [][NextOrder]_vars

\* C29: for a distribution that is a permutation of 1..N, disk i and its
\* checksum are placed at position distribution[i]-1: every disk appears
\* exactly once, paired with its own checksum, and the first DataBlocks
\* positions hold the disks of the data shards.
C29_InverseDistribution ==
    pc = "ordered" =>
        /\ \A i \in PhysicalDisks :
              /\ orderedDisks[distribution[i] - 1] = InDisks[i]
              /\ orderedBlockCheckSums[distribution[i] - 1] = blockCheckSums[i]
        /\ \A d \in PhysicalDisks :
              Cardinality({p \in Shards : orderedDisks[p] = d}) = (IF InDisks[d] = NilDisk THEN 0 ELSE 1)
        /\ \A p \in Shards :
              orderedDisks[p] # NilDisk =>
                  /\ orderedBlockCheckSums[p] = blockCheckSums[orderedDisks[p]]
                  /\ (p < DataBlocks <=> distribution[orderedDisks[p]] <= DataBlocks)

\* A distribution that is not its own inverse was inverted.
C29_Witness ==
    /\ pc = "ordered"
    /\ distribution = <<2, 3, 4, 5, 6, 1>>
    /\ orderedDisks[0] = 6
    /\ orderedDisks[1] = 1
    /\ disks[3] = "offline" /\ orderedDisks[3] = NilDisk

----
(* Fan-out and join in parallelRead, under SpecPar.                        *)

Started == {i \in Shards : tpc[i] # "none"}

Finished == {i \in Shards : tpc[i] = "done"}

\* What the task of shard i leaves behind when nothing interferes with it:
\* its chunk in its slot of the buffer and its disk validated, or no chunk
\* and its disk dead.
OwnOutcome(i) ==
    \/ /\ enBlocks[i] # Nil
       /\ enBlocks[i] = copyN(readDisks[i], blockOffsetOf(block), curChunkSizeOf(block))
       /\ verified[i]
       /\ orderedDisks[i] = readDisks[i]
    \/ /\ enBlocks[i] = Nil
       /\ orderedDisks[i] = NilDisk

TasksIsolated ==
    /\ pc = "wait" => Started = Selected
    /\ \A w \in writes : w.slot = w.task /\ w.task \in Selected
    /\ \A v, w \in writes : (v.array = w.array /\ v.slot = w.slot) => v.task = w.task
    /\ pc = "wait" => \A i \in Finished : OwnOutcome(i)

DecidedAfterJoin ==
    (pc = "wait" /\ pc' # "wait") => Finished = Selected

\* C30: parallelRead runs one task per selected disk; every write of a task
\* to the shard buffer, to the ordered disks and to the verification bitmap
\* goes to the task's own index, so no two tasks write the same slot and
\* each task leaves what it would leave alone; and the block is decided on
\* only when every task of the batch has finished.
C30_FanOutJoin ==
    []TasksIsolated /\ [][DecidedAfterJoin]_vars

\* A batch of three tasks has finished and waits to be joined: one task
\* found its shard file invalid and declared its disk dead, another stored
\* its chunk.
C30_Witness ==
    /\ pc = "wait"
    /\ Cardinality(Selected) >= 3
    /\ Finished = Selected
    /\ \E i, j \in Selected :
          /\ i < j
          /\ ~verified[i] /\ orderedDisks[i] = NilDisk
          /\ enBlocks[j] # Nil
          /\ [task |-> i, array |-> "orderedDisks", slot |-> i] \in writes
          /\ [task |-> j, array |-> "enBlocks", slot |-> j] \in writes

----
(* The sanity branches of getReadDisks.                                    *)

\* C40: within erasureReadFile getReadDisks is never called when the disks
\* below its index already hold all data shards or DataBlocks+1 shards, so
\* it never returns errUnexpected.
C40_SanityUnreachable ==
    /\ err # "errUnexpected"
    /\ pc = "getReadDisks" =>
          getReadDisks(orderedDisks, nextIndex, DataBlocks).err # "errUnexpected"

\* getReadDisks is about to be called again for a block after the first,
\* a batch of that block having failed to make it decodable.
C40_Witness ==
    /\ pc = "getReadDisks"
    /\ nextIndex > 0
    /\ block > startBlock

----
(* Termination of erasureReadFile, under SpecLateFair.                     *)

ReadErrors == {"errXLReadQuorum", "errUnexpected", "ErrTooFewShards", "errVerification"}

\* An iteration of the block loop ends with the write of the block, which
\* adds to the counter, or with the return of an error, which leaves it.
IterationProgress ==
    /\ pc = "write" => bytesWritten' > bytesWritten
    /\ (pc \in {"getReadDisks", "parallelRead", "decode"} /\ pc' = "done")
          => (err' \in ReadErrors /\ bytesWritten' = bytesWritten)

\* C31: erasureReadFile terminates for every input and every pattern of
\* disk failures; every iteration of its block loop returns an error or
\* strictly increases the count of bytes written; and on success the count
\* returned equals the requested length, never more.
C31_ReadTermination ==
    /\ (pc = "damaged") ~> Done
    /\ [][IterationProgress]_vars
    /\ [](Success => (bytesWritten = length /\ Len(writer) = length))

\* A read of several blocks that started inside a block has returned with
\* success.
C31_Witness ==
    /\ Success
    /\ offset % BlockSize # 0
    /\ block > startBlock
    /\ bytesWritten = length

----
(* Prefix filtering and leaf handling of the tree walker.                  *)

\* The keys walker w has handed to its consumer.
Emitted(w) == {received[w][i].entry : i \in {k \in DOMAIN received[w] : ~received[w][k].err}}

SortedNoEmpty(entries) ==
    /\ \A i \in DOMAIN entries : entries[i] # EmptyString
    /\ \A i, j \in DOMAIN entries : i < j => Less(entries[i], entries[j])

ListDirSorted ==
    \A dir \in Dirs, match \in {EmptyString, <<LetterA>>, <<LetterA, Dash>>} :
        SortedNoEmpty(listDir(dir, match).entries)

PrefixDirOf(prefix) == SubSeq(prefix, 1, LastIndexSlash(prefix))

\* The key lies below another object of the tree.
BelowObject(key) == \E o \in tree : HasPrefix(key, o \o <<slashSeparator>>)

\* The keys walker w is to list: they begin with its prefix, are greater
\* than its marker and are not hidden below an object.
Listed(w) ==
    {key \in tree : /\ HasPrefix(key, wparams[w].prefix)
                    /\ Less(wparams[w].marker, key)
                    /\ ~BelowObject(key)}

\* The entry that stands for key in the directory dir: the key itself, or
\* the sub-directory of dir on the way to it.
EntryIn(dir, key) ==
    LET rest == SubSeq(key, Len(dir) + 1, Len(key))
    IN  IF IndexSlash(rest) = 0 THEN key
        ELSE dir \o SubSeq(rest, 1, IndexSlash(rest))

WalkOf(w) == walkFrom(wparams[w].prefix, wparams[w].marker, wparams[w].recursive)

\* The directories treeWalk called itself for.
Descended(w) == WalkOf(w).dirs \ {PrefixDirOf(wparams[w].prefix)}

\* The sub-directories of a listed directory that the filter lets through.
SubDirs(w, dir) ==
    {dir \o e : e \in {r \in ListDir(dir) :
        /\ HasSuffixSlash(r)
        /\ dir = PrefixDirOf(wparams[w].prefix)
              => HasPrefix(r, SubSeq(wparams[w].prefix, Len(dir) + 1,
                                     Len(wparams[w].prefix)))}}

\* How often key occurs among the results walker w has sent.
Occurrences(w, key) ==
    Cardinality({i \in DOMAIN Sent(w) : ~Sent(w)[i].err /\ Sent(w)[i].entry = key})

----
(* The end-of-walk marker.                                                 *)

\* Walker w finished its walk without a listing error or a send timeout.
FinishedClean(w) ==
    /\ Completed(w)
    /\ \A i \in DOMAIN received[w] : ~received[w][i].err

\* C37: in every walk that finishes without a listing error or a send
\* timeout and emits at least one entry, exactly one result carries
\* end = true, and it is the last result sent before the channel is closed;
\* no result other than the last ever carries end = true. This holds for
\* every tree, also when the last directory in walk order is empty.
C37_EndOfWalk ==
    \A w \in Walkers :
        /\ \A i \in DOMAIN Sent(w) :
              (Sent(w)[i].end /\ ~Sent(w)[i].err) => i = Len(plan[w])
        /\ (FinishedClean(w) /\ Len(received[w]) >= 1)
              => received[w][Len(received[w])].end

----
(* The object layer factory, under SpecFac.                                *)

\* C34: the function newObjectLayerFactory returns initializes the object
\* layer at most once: under any number of concurrent callers
\* newObjectLayer is not called again after it succeeded, the steps that
\* follow it run at most once, and all callers that obtain a non-nil result
\* obtain the same object layer.
C34_InitOnce ==
    /\ ~reinit
    /\ layers <= 1
    /\ stepsRun <= 1
    /\ Cardinality(obtained) <= 1

----
(***************************************************************************)
(* The IAM subsystem (cmd/iam.go): the maps of IAMSys, the configuration   *)
(* items in the backend, the calls that change both, the peers that change *)
(* the backend, and the routine that refreshes the maps from the backend.  *)
(* The server keeps its items in the object layer (no etcd client).        *)
(***************************************************************************)

MaxIAMOps == 1

MaxPeerWrites == 1

\* Names of users and of groups; the two share one name space.
IAMNames == {"dev", "ops"}

\* "readonly" is one of the canned policies setDefaultCannedPolicies adds.
CannedPolicies == {"readonly"}

IAMPolicies == CannedPolicies

statusEnabled == "enabled"

statusDisabled == "disabled"

SecretKeys == {"s2"}

\* The madmin.UserInfo values SetUser is called with.
UserInfos ==
    {[secretKey |-> "s1", status |-> statusEnabled, policyName |-> ""],
     [secretKey |-> "s1", status |-> statusEnabled, policyName |-> "readonly"],
     [secretKey |-> "s1", status |-> statusDisabled, policyName |-> ""]}

\* The member lists the group calls are given.
MemberLists == {m \in SUBSET IAMNames : Cardinality(m) <= 1}

nonIAMVars == <<readVars, xlVars, walkVars, rpcVars, facVars>>

\* m[k] = v and delete(m, k) of a Go map.
mapSet(m, k, v) == [x \in DOMAIN m \cup {k} |-> IF x = k THEN v ELSE m[x]]

mapDelete(m, k) == [x \in DOMAIN m \ {k} |-> m[x]]

\* loadUsers twice and loadMappedPolicies twice into one map: the entries of
\* the second listing replace those of the first.
mapMerge(m, n) == [x \in DOMAIN m \cup DOMAIN n |-> IF x \in DOMAIN n THEN n[x] ELSE m[x]]

\* Credentials.IsValid of the auth package, as GetUser uses it: the
\* credentials of an enabled account.
IsValid(cred) == cred.status = statusEnabled

\* GetUser, lines 1250-1256.
GetUser(accessKey) ==
    /\ accessKey \in DOMAIN sys.iamUsersMap
    /\ IsValid(sys.iamUsersMap[accessKey])

\* updateGroupMembershipsMap, lines 1990-2003, on the memberships map ms.
updateGroupMembershipsMap(ms, group, members) ==
    [x \in DOMAIN ms \cup members |->
        IF x \in members
        THEN (IF x \in DOMAIN ms THEN ms[x] ELSE {}) \cup {group}
        ELSE ms[x]]

\* removeGroupFromMembershipsMap, lines 2007-2018: the early return looks
\* the group's name up among the keys of the map, which are user names.
removeGroupFromMembershipsMap(ms, group) ==
    IF group \notin DOMAIN ms
    THEN ms
    ELSE [x \in DOMAIN ms |-> ms[x] \ {group}]

\* buildUserGroupMemberships, lines 1982-1986, over the groups gs.
RECURSIVE buildUserGroupMemberships(_, _, _)
buildUserGroupMemberships(ms, gs, todo) ==
    IF todo = {}
    THEN ms
    ELSE LET group == CHOOSE g \in todo : TRUE
         IN  buildUserGroupMemberships(
                 updateGroupMembershipsMap(ms, group, gs[group].members), gs, todo \ {group})

\* The maps refresh builds, lines 1932-1965. The policies mapped to groups
\* are loaded with isGroup = false (line 1960): loadMappedPolicies lists the
\* mappings of the users.
loadAll(st) ==
    [iamUsersMap |-> mapMerge(st.users, st.stsUsers),
     iamPolicyDocsMap |-> st.policyDocs \cup CannedPolicies,
     iamUserPolicyMap |-> mapMerge(st.userPolicy, st.stsPolicy),
     iamGroupPolicyMap |-> st.userPolicy,
     iamGroupsMap |-> st.groups]

\* Lines 1967-1975: the maps are swapped in under the lock; the memberships
\* map is kept and the groups loaded are added to it.
swapIn(sy, maps) ==
    [iamUsersMap |-> maps.iamUsersMap,
     iamPolicyDocsMap |-> maps.iamPolicyDocsMap,
     iamUserPolicyMap |-> maps.iamUserPolicyMap,
     iamGroupPolicyMap |-> maps.iamGroupPolicyMap,
     iamGroupsMap |-> maps.iamGroupsMap,
     iamUserGroupMemberships |->
         buildUserGroupMemberships(sy.iamUserGroupMemberships, maps.iamGroupsMap,
                                   DOMAIN maps.iamGroupsMap)]

\* The backends a server starts over: users with enabled accounts and at
\* most one group, of all of them.
InitStores ==
    {[EmptyStore EXCEPT !.users = [u \in us |-> [secretKey |-> "s1", status |-> statusEnabled]],
                        !.groups = gs] :
        us \in SUBSET IAMNames,
        gs \in {EmptyMap} \cup
               {[x \in {g} |-> [members |-> m, status |-> statusEnabled]] :
                    g \in {"ops"}, m \in SUBSET IAMNames}}

\* Init, lines 889-940: the maps of NewIAMSys after the first Load.
InitIAM ==
    /\ ReadIdle
    /\ XLIdle
    /\ WalkIdle
    /\ RPCIdle
    /\ FacIdle
    /\ store \in {st \in InitStores :
                    \A g \in DOMAIN st.groups : st.groups[g].members = DOMAIN st.users}
    /\ sys = swapIn(NewIAMSys, loadAll(store))
    /\ refreshed = NewIAMSys
    /\ ipc = "idle"
    /\ ret = NoCall
    /\ created = {}
    /\ iamOps = 0
    /\ peerWrites = 0

\* A call returns: what it was and the error it returned.
Returns(op, name, policy, isGroup, e) ==
    /\ iamOps < MaxIAMOps
    /\ iamOps' = iamOps + 1
    /\ ret' = [op |-> op, name |-> name, policy |-> policy, isGroup |-> isGroup, err |-> e]
    /\ UNCHANGED <<refreshed, ipc, peerWrites>>
    /\ UNCHANGED nonIAMVars

\* deleteConfig: the item is removed, or the backend fails, or the item is
\* not there (ObjectNotFound).
deleteConfig(st, field, key, failed) ==
    IF failed
    THEN [err |-> "errStorage", store |-> st]
    ELSE IF key \notin DOMAIN st[field]
    THEN [err |-> "ObjectNotFound", store |-> st]
    ELSE [err |-> "nil", store |-> [st EXCEPT ![field] = mapDelete(@, key)]]

\* SetPolicy, lines 1000-1027.
SetPolicy(policyName) ==
    \E saved \in BOOLEAN :
        /\ IF saved
           THEN /\ store' = [store EXCEPT !.policyDocs = @ \cup {policyName}]
                /\ sys' = [sys EXCEPT !.iamPolicyDocsMap = @ \cup {policyName}]
           ELSE UNCHANGED <<sys, store>>
        /\ Returns("SetPolicy", "", policyName, FALSE, IF saved THEN "nil" ELSE "errStorage")
        /\ UNCHANGED created

\* DeletePolicy, lines 946-974: the policy leaves the map whatever
\* deleteConfig answered; ObjectNotFound is ignored.
DeletePolicy(policyName) ==
    \E failed \in BOOLEAN :
        /\ store' = IF failed THEN store ELSE [store EXCEPT !.policyDocs = @ \ {policyName}]
        /\ sys' = [sys EXCEPT !.iamPolicyDocsMap = @ \ {policyName}]
        /\ Returns("DeletePolicy", "", policyName, FALSE, IF failed THEN "errStorage" ELSE "nil")
        /\ UNCHANGED created

\* policyDBSet, lines 1510-1541: the name is looked up among the users and
\* the mapping is put into the map of the users, whatever isGroup is.
policyDBSet(sy, st, name, policy, isSTS, isGroup, saved) ==
    IF name = "" \/ policy = ""
    THEN [err |-> "errInvalidArgument", sys |-> sy, store |-> st]
    ELSE IF name \notin DOMAIN sy.iamUsersMap
    THEN [err |-> "errNoSuchUser", sys |-> sy, store |-> st]
    ELSE IF policy \notin sy.iamPolicyDocsMap
    THEN [err |-> "errNoSuchPolicy", sys |-> sy, store |-> st]
    ELSE IF ~saved
    THEN [err |-> "errStorage", sys |-> sy, store |-> st]
    ELSE [err |-> "nil",
          sys |-> [sy EXCEPT !.iamUserPolicyMap = mapSet(@, name, policy)],
          store |-> IF isSTS THEN [st EXCEPT !.stsPolicy = mapSet(@, name, policy)]
                    ELSE IF isGroup THEN [st EXCEPT !.groupPolicy = mapSet(@, name, policy)]
                    ELSE [st EXCEPT !.userPolicy = mapSet(@, name, policy)]]

\* policyDBGet, lines 1563-1594: the policies that apply to the name, or the
\* error.
policyDBGet(name, isGroup) ==
    IF isGroup
    THEN IF name \notin DOMAIN sys.iamGroupsMap
         THEN [err |-> "errNoSuchGroup", policies |-> {}]
         ELSE [err |-> "nil",
               policies |-> IF name \in DOMAIN sys.iamGroupPolicyMap
                            THEN {sys.iamGroupPolicyMap[name]} ELSE {}]
    ELSE IF name \notin DOMAIN sys.iamUsersMap
         THEN [err |-> "errNoSuchUser", policies |-> {}]
         ELSE [err |-> "nil",
               policies |->
                   (IF name \in DOMAIN sys.iamUserPolicyMap
                    THEN {sys.iamUserPolicyMap[name]} ELSE {})
                   \cup {sys.iamGroupPolicyMap[g] :
                            g \in (IF name \in DOMAIN sys.iamUserGroupMemberships
                                   THEN sys.iamUserGroupMemberships[name] ELSE {})
                                  \cap DOMAIN sys.iamGroupPolicyMap}]

\* PolicyDBSet, lines 1494-1506.
PolicyDBSet(name, policy, isGroup) ==
    \E saved \in BOOLEAN :
        LET r == policyDBSet(sys, store, name, policy, FALSE, isGroup, saved)
        IN  /\ sys' = r.sys
            /\ store' = r.store
            /\ Returns("PolicyDBSet", name, policy, isGroup, r.err)
            /\ UNCHANGED created

\* SetUser, lines 1182-1214: the user is in the map before the policy is set.
SetUser(accessKey, uinfo) ==
    \E saved, savedMapping \in BOOLEAN :
        LET cred == [secretKey |-> uinfo.secretKey, status |-> uinfo.status]
            sys1 == [sys EXCEPT !.iamUsersMap = mapSet(@, accessKey, cred)]
            store1 == [store EXCEPT !.users = mapSet(@, accessKey, cred)]
            r == IF ~saved
                 THEN [err |-> "errStorage", sys |-> sys, store |-> store]
                 ELSE IF uinfo.policyName # ""
                 THEN policyDBSet(sys1, store1, accessKey, uinfo.policyName, FALSE, FALSE,
                                  savedMapping)
                 ELSE [err |-> "nil", sys |-> sys1, store |-> store1]
        IN  /\ sys' = r.sys
            /\ store' = r.store
            /\ created' = IF ~saved THEN created
                          ELSE IF ~IsValid(cred) THEN created \ {accessKey}
                          ELSE IF r.err = "nil" THEN created \cup {accessKey}
                          ELSE created
            /\ Returns("SetUser", accessKey, uinfo.policyName, FALSE, r.err)

\* DeleteUser, lines 1030-1062: the error of the first deleteConfig is
\* dropped; the user leaves both maps whatever the second one answered.
DeleteUser(accessKey) ==
    \E failedMapping, failed \in BOOLEAN :
        LET d1 == deleteConfig(store, "userPolicy", accessKey, failedMapping)
            d2 == deleteConfig(d1.store, "users", accessKey, failed)
        IN  /\ store' = d2.store
            /\ sys' = [sys EXCEPT !.iamUsersMap = mapDelete(@, accessKey),
                                  !.iamUserPolicyMap = mapDelete(@, accessKey)]
            /\ created' = created \ {accessKey}
            /\ Returns("DeleteUser", accessKey, "", FALSE,
                       IF d2.err = "ObjectNotFound" THEN "nil" ELSE d2.err)

\* SetTempUser, lines 1065-1118, for credentials that did not expire and a
\* server without OPA. No policy in the map is empty (SetPolicy rejects
\* one), so lines 1082-1085 never run.
SetTempUser(accessKey, policyName) ==
    \E savedMapping, saved \in BOOLEAN :
        LET cred == [secretKey |-> "s1", status |-> statusEnabled]
            mapped == policyName # ""
            sys1 == IF mapped
                    THEN [sys EXCEPT !.iamUserPolicyMap = mapSet(@, accessKey, policyName)]
                    ELSE sys
            store1 == IF mapped
                      THEN [store EXCEPT !.stsPolicy = mapSet(@, accessKey, policyName)]
                      ELSE store
            r == IF mapped /\ policyName \notin sys.iamPolicyDocsMap
                 THEN [err |-> "errInvalidArgument", sys |-> sys, store |-> store]
                 ELSE IF mapped /\ ~savedMapping
                 THEN [err |-> "errStorage", sys |-> sys, store |-> store]
                 ELSE IF ~saved
                 THEN [err |-> "errStorage", sys |-> sys1, store |-> store1]
                 ELSE [err |-> "nil",
                       sys |-> [sys1 EXCEPT !.iamUsersMap = mapSet(@, accessKey, cred)],
                       store |-> [store1 EXCEPT !.stsUsers = mapSet(@, accessKey, cred)]]
        IN  /\ sys' = r.sys
            /\ store' = r.store
            /\ UNCHANGED created
            /\ Returns("SetTempUser", accessKey, policyName, FALSE, r.err)

\* SetUserStatus, lines 1143-1179.
SetUserStatus(accessKey, status) ==
    \E saved \in BOOLEAN :
        LET known == accessKey \in DOMAIN sys.iamUsersMap
            cred == [secretKey |-> sys.iamUsersMap[accessKey].secretKey, status |-> status]
            done == known /\ saved
        IN  /\ sys' = IF done THEN [sys EXCEPT !.iamUsersMap = mapSet(@, accessKey, cred)]
                      ELSE sys
            /\ store' = IF done THEN [store EXCEPT !.users = mapSet(@, accessKey, cred)]
                        ELSE store
            /\ created' = IF done /\ status = statusDisabled THEN created \ {accessKey}
                          ELSE created
            /\ Returns("SetUserStatus", accessKey, "", FALSE,
                       IF ~known THEN "errNoSuchUser"
                       ELSE IF ~saved THEN "errStorage" ELSE "nil")

\* SetUserSecretKey, lines 1217-1247.
SetUserSecretKey(accessKey, secretKey) ==
    \E saved \in BOOLEAN :
        LET known == accessKey \in DOMAIN sys.iamUsersMap
            cred == [sys.iamUsersMap[accessKey] EXCEPT !.secretKey = secretKey]
            done == known /\ saved
        IN  /\ sys' = IF done THEN [sys EXCEPT !.iamUsersMap = mapSet(@, accessKey, cred)]
                      ELSE sys
            /\ store' = IF done THEN [store EXCEPT !.users = mapSet(@, accessKey, cred)]
                        ELSE store
            /\ UNCHANGED created
            /\ Returns("SetUserSecretKey", accessKey, "", FALSE,
                       IF ~known THEN "errNoSuchUser"
                       ELSE IF ~saved THEN "errStorage" ELSE "nil")

\* AddUsersToGroup, lines 1260-1316.
AddUsersToGroup(group, members) ==
    \E saved \in BOOLEAN :
        LET known == members \subseteq DOMAIN sys.iamUsersMap
            gi == IF group \notin DOMAIN sys.iamGroupsMap
                  THEN [members |-> members, status |-> statusEnabled]
                  ELSE [sys.iamGroupsMap[group] EXCEPT !.members = @ \cup members]
            done == known /\ saved
        IN  /\ sys' = IF done
                      THEN [sys EXCEPT
                               !.iamGroupsMap = mapSet(@, group, gi),
                               !.iamUserGroupMemberships =
                                   updateGroupMembershipsMap(@, group, members)]
                      ELSE sys
            /\ store' = IF done THEN [store EXCEPT !.groups = mapSet(@, group, gi)] ELSE store
            /\ UNCHANGED created
            /\ Returns("AddUsersToGroup", group, "", TRUE,
                       IF ~known THEN "errNoSuchUser"
                       ELSE IF ~saved THEN "errStorage" ELSE "nil")

\* RemoveUsersFromGroup, lines 1320-1409.
RemoveUsersFromGroup(group, members) ==
    \E failed, failedMapping \in BOOLEAN :
        LET known == members \subseteq DOMAIN sys.iamUsersMap
            exists == group \in DOMAIN sys.iamGroupsMap
            gi == sys.iamGroupsMap[group]
            d1 == deleteConfig(store, "groups", group, failed)
            d2 == deleteConfig(d1.store, "groupPolicy", group, failedMapping)
            left == [gi EXCEPT !.members = @ \ members]
            r == IF ~known
                 THEN [err |-> "errNoSuchUser", sys |-> sys, store |-> store]
                 ELSE IF ~exists
                 THEN [err |-> "errNoSuchGroup", sys |-> sys, store |-> store]
                 ELSE IF members = {} /\ gi.members # {}
                 THEN [err |-> "errGroupNotEmpty", sys |-> sys, store |-> store]
                 ELSE IF members = {}
                 THEN IF d1.err # "nil"
                      THEN [err |-> d1.err, sys |-> sys, store |-> d1.store]
                      ELSE IF d2.err # "nil"
                      THEN [err |-> d2.err, sys |-> sys, store |-> d2.store]
                      ELSE [err |-> "nil",
                            sys |-> [sys EXCEPT !.iamGroupsMap = mapDelete(@, group),
                                                !.iamGroupPolicyMap = mapDelete(@, group)],
                            store |-> d2.store]
                 ELSE IF failed
                 THEN [err |-> "errStorage", sys |-> sys, store |-> store]
                 ELSE [err |-> "nil",
                       sys |-> [sys EXCEPT
                                   !.iamGroupsMap = mapSet(@, group, left),
                                   !.iamUserGroupMemberships =
                                       [x \in DOMAIN @ |->
                                           IF x \in members THEN @[x] \ {group} ELSE @[x]]],
                       store |-> [store EXCEPT !.groups = mapSet(@, group, left)]]
        IN  /\ sys' = r.sys
            /\ store' = r.store
            /\ UNCHANGED created
            /\ Returns("RemoveUsersFromGroup", group, "", TRUE, r.err)

\* SetGroupStatus, lines 1412-1449.
SetGroupStatus(group, enabled) ==
    \E saved \in BOOLEAN :
        LET exists == group \in DOMAIN sys.iamGroupsMap
            gi == [sys.iamGroupsMap[group] EXCEPT
                      !.status = IF enabled THEN statusEnabled ELSE statusDisabled]
            done == exists /\ saved
        IN  /\ sys' = IF done THEN [sys EXCEPT !.iamGroupsMap = mapSet(@, group, gi)] ELSE sys
            /\ store' = IF done THEN [store EXCEPT !.groups = mapSet(@, group, gi)] ELSE store
            /\ UNCHANGED created
            /\ Returns("SetGroupStatus", group, "", TRUE,
                       IF ~exists THEN "errNoSuchGroup"
                       ELSE IF ~saved THEN "errStorage" ELSE "nil")

\* LoadGroup, lines 397-435, called when a peer says it changed the group.
LoadGroup(group) ==
    \E failed \in BOOLEAN :
        LET stored == group \in DOMAIN store.groups
            removed == removeGroupFromMembershipsMap(sys.iamUserGroupMemberships, group)
        IN  /\ sys' = IF failed
                      THEN sys
                      ELSE IF ~stored
                      THEN [sys EXCEPT !.iamUserGroupMemberships = removed,
                                       !.iamGroupsMap = mapDelete(@, group),
                                       !.iamGroupPolicyMap = mapDelete(@, group)]
                      ELSE [sys EXCEPT
                               !.iamGroupsMap = mapSet(@, group, store.groups[group]),
                               !.iamUserGroupMemberships =
                                   updateGroupMembershipsMap(removed, group,
                                                             store.groups[group].members)]
            /\ UNCHANGED <<store, created>>
            /\ Returns("LoadGroup", group, "", TRUE, IF failed THEN "errStorage" ELSE "nil")

\* Another server of the cluster changes a group in the shared backend: it
\* saves the group with other members, or deletes it.
PeerSetGroup(group, members, keep) ==
    /\ members \subseteq DOMAIN store.users
    /\ store' = IF keep
                THEN [store EXCEPT !.groups =
                         mapSet(@, group, [members |-> members, status |-> statusEnabled])]
                ELSE [store EXCEPT !.groups = mapDelete(@, group),
                                   !.groupPolicy = mapDelete(@, group)]
    /\ store' # store
    /\ iamOps < MaxIAMOps
    /\ peerWrites < MaxPeerWrites
    /\ peerWrites' = peerWrites + 1
    /\ ret' = [NoCall EXCEPT !.op = "peer"]
    /\ UNCHANGED <<sys, created, refreshed, ipc, iamOps>>
    /\ UNCHANGED nonIAMVars

\* refresh, lines 1932-1965: the routine of watchIAMDisk builds new maps
\* from the backend; it does not hold the lock.
RefreshLoad ==
    /\ ipc = "idle"
    /\ iamOps < MaxIAMOps
    /\ refreshed' = swapIn(NewIAMSys, loadAll(store))
    /\ ipc' = "loaded"
    /\ UNCHANGED <<sys, store, ret, created, iamOps, peerWrites>>
    /\ UNCHANGED nonIAMVars

\* refresh, lines 1967-1977: it takes the lock and swaps the maps in.
RefreshSwap ==
    /\ ipc = "loaded"
    /\ sys' = swapIn(sys, refreshed)
    /\ refreshed' = NewIAMSys
    /\ ipc' = "idle"
    /\ ret' = [NoCall EXCEPT !.op = "refresh"]
    /\ UNCHANGED <<store, created, iamOps, peerWrites>>
    /\ UNCHANGED nonIAMVars

NextIAM ==
    \/ \E policyName \in IAMPolicies : SetPolicy(policyName)
    \/ \E policyName \in IAMPolicies : DeletePolicy(policyName)
    \/ \E accessKey \in IAMNames, uinfo \in UserInfos : SetUser(accessKey, uinfo)
    \/ \E accessKey \in IAMNames : DeleteUser(accessKey)
    \/ \E accessKey \in IAMNames, policyName \in {""} \cup IAMPolicies :
           SetTempUser(accessKey, policyName)
    \/ \E accessKey \in IAMNames, status \in {statusEnabled, statusDisabled} :
           SetUserStatus(accessKey, status)
    \/ \E accessKey \in IAMNames, secretKey \in SecretKeys :
           SetUserSecretKey(accessKey, secretKey)
    \/ \E group \in IAMNames, members \in MemberLists : AddUsersToGroup(group, members)
    \/ \E group \in IAMNames, members \in MemberLists : RemoveUsersFromGroup(group, members)
    \/ \E group \in IAMNames, enabled \in BOOLEAN : SetGroupStatus(group, enabled)
    \/ \E name \in IAMNames, policy \in IAMPolicies, isGroup \in BOOLEAN :
           PolicyDBSet(name, policy, isGroup)
    \/ RefreshLoad
    \/ RefreshSwap

SpecIAM == InitIAM /\ [][NextIAM]_vars

\* A server of a cluster: peers change groups in the backend and notify it,
\* while it serves group calls of its own and refreshes its maps.
NextPeer ==
    \/ \E group \in IAMNames, members \in MemberLists, keep \in BOOLEAN :
           PeerSetGroup(group, members, keep)
    \/ \E group \in IAMNames : LoadGroup(group)
    \/ \E group \in IAMNames, members \in MemberLists : AddUsersToGroup(group, members)
    \/ \E group \in IAMNames, members \in MemberLists : RemoveUsersFromGroup(group, members)
    \/ RefreshLoad
    \/ RefreshSwap

SpecPeer == InitIAM /\ [][NextPeer]_vars

----
(* Properties of the IAM subsystem. *)

\* The groups the memberships map holds for a user.
membershipsOf(u) ==
    IF u \in DOMAIN sys.iamUserGroupMemberships THEN sys.iamUserGroupMemberships[u] ELSE {}

\* C35: after LoadGroup(g) returned nil, g is in a user's membership set
\* exactly when the user is a member of g as stored, and a group that is
\* not stored is in neither the groups map nor the group-policy map.
C35_MembershipCurrent ==
    (ret.op = "LoadGroup" /\ ret.err = "nil") =>
        LET g == ret.name
            stored == g \in DOMAIN store.groups
        IN  /\ \A u \in IAMNames :
                  (g \in membershipsOf(u)) <=> (stored /\ u \in store.groups[g].members)
            /\ ~stored => /\ g \notin DOMAIN sys.iamGroupsMap
                          /\ g \notin DOMAIN sys.iamGroupPolicyMap

\* C36: after PolicyDBSet succeeded for an existing group, PolicyDBGet of
\* the group returns exactly that policy; after it succeeded for a user,
\* PolicyDBGet of the user contains the policy; and a call that names an
\* existing group does not fail with errNoSuchUser.
C36_PolicyDBSetGet ==
    ret.op = "PolicyDBSet" =>
        /\ (ret.err = "nil" /\ ret.isGroup /\ ret.name \in DOMAIN sys.iamGroupsMap) =>
               policyDBGet(ret.name, TRUE) = [err |-> "nil", policies |-> {ret.policy}]
        /\ (ret.err = "nil" /\ ~ret.isGroup) =>
               ret.policy \in policyDBGet(ret.name, FALSE).policies
        /\ (ret.isGroup /\ ret.name \in DOMAIN sys.iamGroupsMap) => ret.err # "errNoSuchUser"

MutatingCalls ==
    {"SetPolicy", "DeletePolicy", "SetUser", "DeleteUser", "SetUserStatus", "SetUserSecretKey",
     "SetTempUser", "AddUsersToGroup", "RemoveUsersFromGroup", "SetGroupStatus"}

\* A step in which a mutating call returned an error.
FailedCall ==
    /\ iamOps' = iamOps + 1
    /\ ret'.op \in MutatingCalls
    /\ ret'.err # "nil"

\* C38: a mutating call that returns an error leaves every map of IAMSys as
\* it was before the call.
C38_ErrorAtomicity == [][FailedCall => sys' = sys]_vars

\* C39: a user SetUser created with valid credentials is visible to GetUser
\* until it is deleted, whatever the refresh routine does meanwhile.
C39_NoLostUpdate == \A accessKey \in created : GetUser(accessKey)

====
